---- MODULE Spec2Model ----
(***************************************************************************)
(* The DefaultPrivilege reconciler of provider-sql (PostgreSQL): the four  *)
(* verbs Observe / Create / Update / Delete of the external client, the    *)
(* statement builders createQueries / deleteQuery, the catalog queries,    *)
(* and a PostgreSQL catalog (roles, databases, default ACL) on which the   *)
(* two database handles act.                                               *)
(*                                                                         *)
(* Conventions                                                             *)
(*   - a Go pointer / slice is <<>> when nil and <<v>> when set;           *)
(*   - a name is a sequence of one-character strings;                      *)
(*   - SQL text is a sequence of tokens: words, " " and the characters of  *)
(*     interpolated values, so that quoting is computed, not assumed;      *)
(*   - an error is its wrap chain, outermost message first; <<>> is nil.   *)
(***************************************************************************)
EXTENDS Integers, Sequences, FiniteSets, TLC

VARIABLES
    cr,         \* the managed resource handed to the verbs (spec and conditions)
    ext,        \* the external client: its two database handles
    acl,        \* the server's table default-ACL entries
    databases,  \* the databases that exist on the server
    res,        \* the last verb call: arguments, handle calls, results
    ncalls,     \* the number of verb calls made
    created,    \* history: a Create committed and nothing outside the
                \* reconciler changed the object or the server since
    deleted,    \* history: the revoke of a Delete committed and nothing
                \* outside the reconciler changed the object or the server
                \* since
    pending,    \* a Delete between its existence probe and its ExecTx
    cancelled   \* the context handed to the verbs is cancelled

vars ==
    <<cr, ext, acl, databases, res, ncalls, created, deleted, pending,
      cancelled>>

(***************************************************************************)
(* Bounds                                                                  *)
(***************************************************************************)
\* number of verb invocations explored in one behaviour
MaxCalls == 3

(***************************************************************************)
(* Values the declared object is drawn from                                *)
(***************************************************************************)
DQ == "\""

PublicSchema == <<"p", "u", "b", "l", "i", "c">>

RoleNames == {<<"r">>, <<"r", DQ>>}

OwnerNames == {<<"o">>}

SchemaNames == {PublicSchema, <<"s">>}

DatabaseNames == {"d"}

DefaultDatabase == "postgres"

\* privilege tokens admitted by the kubebuilder pattern ^[A-Z]+$
PrivilegeLists == {<<>>, <<"ALL">>, <<"SELECT", "INSERT">>}

Nil == <<>>

Ptr(v) == <<v>>

IsNil(p) == p = <<>>

Deref(p) == p[1]

(***************************************************************************)
(* Errors: github.com/pkg/errors wrap chains                               *)
(***************************************************************************)
errTrackPCUsage == "cannot track ProviderConfig usage"
errGetPC == "cannot get ProviderConfig"
errNoSecretRef == "ProviderConfig does not reference a credentials Secret"
errGetSecret == "cannot get credentials Secret"
errNot == "managed resource is not a  custom resource"
errSelectDefaultPerms == "cannot select default permissions "
errCreateDefaultPermsQuery == "cannot create default permissions query"
errSelectRoleId == "cannot select role id "
errCreateDefaultPerms == "cannot create default permissions "
errRevokeDefaultPerms == "cannot revoke default permissions "
errRevokeDefaultPermsQuery == "cannot create revoke default permissions query"
errNoRole == "role not passed or could not be resolved"
errNoOwner == "owner not passed or could not be resolved"
errNoSchema == "schema not passed or could not be resolved"
errNoPrivileges == "privileges not passed"
errUnknown == "cannot identify  type based on passed params"
errBoom == "boom"
errTxAborted == "transaction aborted"
errNoDatabaseConn == "database does not exist"
errCanceled == "context canceled"

NoErr == <<>>

Msg(m, a) == [msg |-> m, arg |-> a]

New(m) == <<Msg(m, <<>>)>>

\* errors.Wrap returns nil when the wrapped error is nil
Wrap(err, m) == IF err = NoErr THEN NoErr ELSE <<Msg(m, <<>>)>> \o err

\* fmt.Errorf("... %s: %w", name, err)
Errorf(m, name, err) == <<Msg(m, name)>> \o err

Cause(err) == err[Len(err)].msg

(***************************************************************************)
(* The declared object and its status conditions                           *)
(***************************************************************************)
Available == [Type |-> "Ready", Status |-> "True", Reason |-> "Available"]

Creating == [Type |-> "Ready", Status |-> "False", Reason |-> "Creating"]

Deleting == [Type |-> "Ready", Status |-> "False", Reason |-> "Deleting"]

\* xpv1 ConditionedStatus.SetConditions: replace the condition of the same
\* type, else append
SetConditions(cs, cond) ==
    IF \E i \in 1..Len(cs) : cs[i].Type = cond.Type
    THEN [i \in 1..Len(cs) |-> IF cs[i].Type = cond.Type THEN cond ELSE cs[i]]
    ELSE Append(cs, cond)

DefaultPrivilegeParameters ==
    [Privileges : {Nil} \cup {Ptr(p) : p \in PrivilegeLists},
     Role : {Nil} \cup {Ptr(n) : n \in RoleNames},
     Owner : {Nil} \cup {Ptr(n) : n \in OwnerNames},
     Schema : {Nil} \cup {Ptr(n) : n \in SchemaNames},
     Database : {Nil} \cup {Ptr(n) : n \in DatabaseNames}]

\* a managed resource of another kind (the tests pass nil)
NotDefaultPrivilege ==
    [kind |-> "Other",
     ForProvider |-> [Privileges |-> Nil, Role |-> Nil, Owner |-> Nil,
                      Schema |-> Nil, Database |-> Nil],
     Conditions |-> <<>>]

DefaultPrivilege(gp) ==
    [kind |-> "DefaultPrivilege", ForProvider |-> gp, Conditions |-> <<>>]

IsDefaultPrivilege(mg) == mg.kind = "DefaultPrivilege"

\* DefaultPrivilegePrivileges.ToStringSlice
ToStringSlice(gp) == IF IsNil(gp) THEN <<>> ELSE Deref(gp)

(***************************************************************************)
(* Statement text                                                          *)
(***************************************************************************)
Sp == " "

RECURSIVE Replace(_)
\* strings.Replace(name, `"`, `""`, -1)
Replace(name) ==
    IF name = <<>> THEN <<>>
    ELSE (IF Head(name) = DQ THEN <<DQ, DQ>> ELSE <<Head(name)>>)
         \o Replace(Tail(name))

\* pq.QuoteIdentifier
QuoteIdentifier(name) == <<DQ>> \o Replace(name) \o <<DQ>>

RECURSIVE Join(_, _)
\* strings.Join
Join(elems, sep) ==
    IF elems = <<>> THEN <<>>
    ELSE IF Len(elems) = 1 THEN <<Head(elems)>>
    ELSE <<Head(elems), sep>> \o Join(Tail(elems), sep)

Query(str, params) == [String |-> str, Parameters |-> params]

StrParam(s) == [isInt |-> FALSE, str |-> s, int |-> 0]

IntParam(i) == [isInt |-> TRUE, str |-> <<>>, int |-> i]

\* "SET ROLE %s "
SetRoleText(owner) == <<"SET", Sp, "ROLE", Sp>> \o owner \o <<Sp>>

AlterPrefix(owner) ==
    <<"ALTER", Sp, "DEFAULT", Sp, "PRIVILEGES", Sp, "FOR", Sp, "ROLE", Sp>>
    \o owner

RevokeTail(ro) ==
    <<Sp, "REVOKE", Sp, "ALL", Sp, "ON", Sp, "TABLES", Sp, "FROM", Sp>> \o ro

\* mutant: the revoke names the role as grantor and the owner as grantee
CreateRevokeTextSwapped(owner, schema, ro) ==
    AlterPrefix(ro) \o <<Sp, "IN", Sp, "SCHEMA", Sp>> \o schema
    \o RevokeTail(owner)

\* "ALTER DEFAULT PRIVILEGES FOR ROLE %s IN SCHEMA %s REVOKE ALL ON TABLES FROM %s"
CreateRevokeText(owner, schema, ro) ==
    AlterPrefix(owner) \o <<Sp, "IN", Sp, "SCHEMA", Sp>> \o schema
    \o RevokeTail(ro)

\* "ALTER DEFAULT PRIVILEGES FOR ROLE %s IN SCHEMA %s  GRANT  %s ON TABLES TO %s"
GrantText(owner, schema, p, ro) ==
    AlterPrefix(owner) \o <<Sp, "IN", Sp, "SCHEMA", Sp>> \o schema
    \o <<Sp, Sp, "GRANT", Sp, Sp>> \o p
    \o <<Sp, "ON", Sp, "TABLES", Sp, "TO", Sp>> \o ro

\* mutant: owner and role change places in the revoke of Delete
DeleteRevokeTextFromOwner(owner, schema, ro) ==
    AlterPrefix(ro) \o <<Sp, Sp, "IN", Sp, "SCHEMA", Sp>> \o schema
    \o RevokeTail(owner)

\* "ALTER DEFAULT PRIVILEGES FOR ROLE %s  IN SCHEMA %s REVOKE ALL ON TABLES FROM %s"
DeleteRevokeText(owner, schema, ro) ==
    AlterPrefix(owner) \o <<Sp, Sp, "IN", Sp, "SCHEMA", Sp>> \o schema
    \o RevokeTail(ro)

BuildResult(e, q) == [err |-> e, ql |-> q, panicked |-> FALSE]

\* a nil pointer dereference: the Go runtime panics, nothing is returned
BuildPanic == [err |-> NoErr, ql |-> <<>>, panicked |-> TRUE]

\* mutant: only the nil test guards the privilege list; an empty list goes on
\* to the statements
createQueriesNoEmptyTest(gp) ==
    IF IsNil(gp.Role) THEN BuildResult(New(errNoRole), <<>>)
    ELSE IF IsNil(gp.Schema) THEN BuildResult(New(errNoSchema), <<>>)
    ELSE IF IsNil(gp.Privileges) THEN BuildResult(New(errNoPrivileges), <<>>)
    ELSE IF IsNil(gp.Owner) THEN BuildResult(New(errNoOwner), <<>>)
    ELSE BuildResult(NoErr,
           <<Query(SetRoleText(QuoteIdentifier(Deref(gp.Owner))), <<>>),
             Query(CreateRevokeText(QuoteIdentifier(Deref(gp.Owner)),
                                    QuoteIdentifier(Deref(gp.Schema)),
                                    QuoteIdentifier(Deref(gp.Role))), <<>>),
             Query(GrantText(QuoteIdentifier(Deref(gp.Owner)),
                             QuoteIdentifier(Deref(gp.Schema)),
                             Join(ToStringSlice(gp.Privileges), ","),
                             QuoteIdentifier(Deref(gp.Role))), <<>>)>>)

createQueries(gp) ==
    IF IsNil(gp.Role) THEN BuildResult(New(errNoRole), <<>>)
    ELSE IF IsNil(gp.Schema) THEN BuildResult(New(errNoSchema), <<>>)
    ELSE IF IsNil(gp.Privileges) THEN BuildResult(New(errNoPrivileges), <<>>)
    ELSE IF IsNil(gp.Owner) THEN BuildResult(New(errNoOwner), <<>>)
    ELSE LET ro == QuoteIdentifier(Deref(gp.Role))
             schema == QuoteIdentifier(Deref(gp.Schema))
             p == Join(ToStringSlice(gp.Privileges), ",")
         IN  IF Len(p) = 0 THEN BuildResult(New(errNoPrivileges), <<>>)
             ELSE BuildResult(NoErr,
                    <<Query(SetRoleText(QuoteIdentifier(Deref(gp.Owner))), <<>>),
                      Query(CreateRevokeText(QuoteIdentifier(Deref(gp.Owner)),
                                             QuoteIdentifier(Deref(gp.Schema)),
                                             ro), <<>>),
                      Query(GrantText(QuoteIdentifier(Deref(gp.Owner)),
                                      schema, p, ro), <<>>)>>)

\* mutant: the role name goes into the revoke as it is declared
deleteQueryRawRole(gp) ==
    IF IsNil(gp.Role) THEN BuildResult(New(errNoRole), <<>>)
    ELSE IF IsNil(gp.Schema) THEN BuildResult(New(errNoSchema), <<>>)
    ELSE IF IsNil(gp.Owner) THEN BuildPanic
    ELSE BuildResult(NoErr,
           <<Query(SetRoleText(QuoteIdentifier(Deref(gp.Owner))), <<>>),
             Query(DeleteRevokeText(QuoteIdentifier(Deref(gp.Owner)),
                                    QuoteIdentifier(Deref(gp.Schema)),
                                    Deref(gp.Role)), <<>>)>>)

deleteQuery(gp) ==
    IF IsNil(gp.Role) THEN BuildResult(New(errNoRole), <<>>)
    ELSE IF IsNil(gp.Schema) THEN BuildResult(New(errNoSchema), <<>>)
    ELSE IF IsNil(gp.Owner) THEN BuildPanic
    ELSE LET ro == QuoteIdentifier(Deref(gp.Role))
         IN  BuildResult(NoErr,
               <<Query(SetRoleText(QuoteIdentifier(Deref(gp.Owner))), <<>>),
                 Query(DeleteRevokeText(QuoteIdentifier(Deref(gp.Owner)),
                                        QuoteIdentifier(Deref(gp.Schema)),
                                        ro), <<>>)>>)

\* "SELECT oid FROM pg_roles WHERE rolname = $1;"
RoleOIDText ==
    <<"SELECT", Sp, "oid", Sp, "FROM", Sp, "pg_roles", Sp, "WHERE", Sp,
      "rolname", Sp, "=", Sp, "$1", ";">>

\* "SELECT EXISTS (SELECT datname FROM pg_catalog.pg_database WHERE datname = $1);"
DataBaseExitsText ==
    <<"SELECT", Sp, "EXISTS", Sp, "(", "SELECT", Sp, "datname", Sp, "FROM",
      Sp, "pg_catalog.pg_database", Sp, "WHERE", Sp, "datname", Sp, "=", Sp,
      "$1", ")", ";">>

\* the grant-existence probe; the namespace is the literal 'public'
selectQuery(ownerID, roleID) ==
    Query(<<"SELECT", Sp, "EXISTS", Sp, "(", "SELECT", Sp, "1", Sp, "FROM",
            Sp, "pg_default_acl", Sp, "WHERE", Sp, "defaclobjtype", Sp, "=",
            Sp, "'", "r", "'", Sp, "AND", Sp, "grantee_oid", Sp, "=", Sp,
            "$1", Sp, "AND", Sp, "nspname", Sp, "=", Sp, "'">>
          \o PublicSchema
          \o <<"'", Sp, "AND", Sp, "grantor_oid", Sp, "=", Sp, "$2", ")", ";">>,
          <<IntParam(roleID), IntParam(ownerID)>>)

(***************************************************************************)
(* The PostgreSQL server behind the two handles: role catalog, databases,  *)
(* default-ACL entries; Scan and ExecTx of xsql.DB                         *)
(***************************************************************************)
pg_roles ==
    {[rolname |-> <<"r">>, oid |-> 16384],
     [rolname |-> <<"r", DQ>>, oid |-> 16385],
     [rolname |-> <<"o">>, oid |-> 16386]}

HasRole(name) == \E row \in pg_roles : row.rolname = name

OidOf(name) == (CHOOSE row \in pg_roles : row.rolname = name).oid

Kw(w) == [k |-> "kw", v |-> <<w>>]

Ident(n) == [k |-> "id", v |-> n]

BadLexeme == [k |-> "bad", v |-> <<>>]

RECURSIVE ReadIdent(_, _)
\* the text after an opening double quote, up to the closing one; a doubled
\* quote stands for one quote character
ReadIdent(text, acc) ==
    IF text = <<>> THEN [ok |-> FALSE, name |-> acc, rest |-> <<>>]
    ELSE IF Head(text) = DQ
         THEN IF Len(text) >= 2 /\ text[2] = DQ
              THEN ReadIdent(Tail(Tail(text)), Append(acc, DQ))
              ELSE [ok |-> TRUE, name |-> acc, rest |-> Tail(text)]
         ELSE ReadIdent(Tail(text), Append(acc, Head(text)))

RECURSIVE Lex(_)
Lex(text) ==
    IF text = <<>> THEN <<>>
    ELSE IF Head(text) = Sp THEN Lex(Tail(text))
    ELSE IF Head(text) = DQ
         THEN LET r == ReadIdent(Tail(text), <<>>)
              IN  IF r.ok THEN <<Ident(r.name)>> \o Lex(r.rest)
                  ELSE <<BadLexeme>>
         ELSE <<Kw(Head(text))>> \o Lex(Tail(text))

KwAt(L, i, words) ==
    /\ Len(L) >= i + Len(words) - 1
    /\ \A j \in 1..Len(words) : L[i + j - 1] = Kw(words[j])

IdAt(L, i) == Len(L) >= i /\ L[i].k = "id"

BadStmt == [op |-> "Bad", owner |-> <<>>, schema |-> <<>>, role |-> <<>>,
            privs |-> {}]

AlterHead == <<"ALTER", "DEFAULT", "PRIVILEGES", "FOR", "ROLE">>

\* the statements of the SQL grammar the reconciler emits, from lexemes
ParseLexemes(L, n) ==
    IF n = 3 /\ KwAt(L, 1, <<"SET", "ROLE">>) /\ IdAt(L, 3)
    THEN [BadStmt EXCEPT !.op = "SetRole", !.owner = L[3].v]
    ELSE IF /\ n = 15
            /\ KwAt(L, 1, AlterHead) /\ IdAt(L, 6)
            /\ KwAt(L, 7, <<"IN", "SCHEMA">>) /\ IdAt(L, 9)
            /\ KwAt(L, 10, <<"REVOKE", "ALL", "ON", "TABLES", "FROM">>)
            /\ IdAt(L, 15)
    THEN [BadStmt EXCEPT !.op = "Revoke", !.owner = L[6].v,
                         !.schema = L[9].v, !.role = L[15].v]
    ELSE IF /\ n >= 15
            /\ KwAt(L, 1, AlterHead) /\ IdAt(L, 6)
            /\ KwAt(L, 7, <<"IN", "SCHEMA">>) /\ IdAt(L, 9)
            /\ KwAt(L, 10, <<"GRANT">>)
            /\ KwAt(L, n - 3, <<"ON", "TABLES", "TO">>) /\ IdAt(L, n)
            /\ (n - 14) % 2 = 1
            /\ \A i \in 11..(n - 4) :
                  /\ L[i].k = "kw"
                  /\ ((i - 11) % 2 = 1) <=> (L[i] = Kw(","))
    THEN [BadStmt EXCEPT !.op = "Grant", !.owner = L[6].v,
                         !.schema = L[9].v, !.role = L[n].v,
                         !.privs = {L[i].v[1] :
                                      i \in {j \in 11..(n - 4) :
                                               (j - 11) % 2 = 0}}]
    ELSE BadStmt

ParseStmt(text) == ParseLexemes(Lex(text), Len(Lex(text)))

AclKey(e) == <<e.db, e.nsp, e.grantor, e.grantee>>

\* ALTER DEFAULT PRIVILEGES ... REVOKE ALL / GRANT on the entry with this key
AlterAcl(a, st, key) ==
    IF st.op = "Revoke" THEN {e \in a : AclKey(e) # key}
    ELSE {e \in a : AclKey(e) # key} \cup
         {[db |-> key[1], nsp |-> key[2], grantor |-> key[3],
           grantee |-> key[4],
           privs |-> UNION {e.privs : e \in {f \in a : AclKey(f) = key}}
                     \cup st.privs]}

\* one parsed statement run in a session: its role, the default ACL,
\* whether the transaction is still good
ApplyParsed(sess, dbname, st) ==
    IF ~sess.ok THEN sess
    ELSE IF st.op = "SetRole"
    THEN IF HasRole(st.owner) THEN [sess EXCEPT !.role = Ptr(st.owner)]
         ELSE [sess EXCEPT !.ok = FALSE]
    ELSE IF st.op \in {"Revoke", "Grant"}
    THEN IF /\ HasRole(st.owner) /\ HasRole(st.role)
            /\ st.schema \in SchemaNames
            /\ sess.role = Ptr(st.owner)
         THEN [sess EXCEPT !.acl =
                 AlterAcl(sess.acl, st,
                          <<dbname, st.schema, OidOf(st.owner),
                            OidOf(st.role)>>)]
         ELSE [sess EXCEPT !.ok = FALSE]
    ELSE [sess EXCEPT !.ok = FALSE]

ApplyStmt(sess, dbname, text) == ApplyParsed(sess, dbname, ParseStmt(text))

RECURSIVE RunStmts(_, _, _)
RunStmts(sess, dbname, ql) ==
    IF ql = <<>> THEN sess
    ELSE RunStmts(ApplyStmt(sess, dbname, Head(ql).String), dbname, Tail(ql))

\* one call on a handle, with what it returned
Call(h, o, cx, q, e, i, b) ==
    [handle |-> h, op |-> o, ctx |-> cx, ql |-> q, err |-> e, int |-> i,
     bool |-> b]

ExecResult(e, a, h, cx, ql) ==
    [err |-> e, acl |-> a, call |-> Call(h, "ExecTx", cx, ql, e, 0, FALSE)]

TxOutcome(end, h, cx, ql, dbname, boom) ==
    IF cancelled /\ cx = "ctx" THEN ExecResult(New(errCanceled), acl, h, cx, ql)
    ELSE IF boom THEN ExecResult(New(errBoom), acl, h, cx, ql)
    ELSE IF dbname \notin databases
    THEN ExecResult(New(errNoDatabaseConn), acl, h, cx, ql)
    ELSE IF ~end.ok THEN ExecResult(New(errTxAborted), acl, h, cx, ql)
    ELSE ExecResult(NoErr, end.acl, h, cx, ql)

\* xsql.DB.ExecTx: all statements in one transaction, in order; on any
\* failure nothing is applied
ExecTx(h, dbname, cx, ql, boom) ==
    TxOutcome(RunStmts([role |-> Nil, acl |-> acl, ok |-> TRUE], dbname, ql),
              h, cx, ql, dbname, boom)

\* the schema literal of the grant probe: the characters between the
\* quotes that follow "nspname ="
NspLiteral(text) ==
    LET i == CHOOSE k \in 1..Len(text) : text[k] = "nspname"
        a == CHOOSE k \in (i + 1)..Len(text) :
                 text[k] = "'" /\ \A m \in (i + 1)..(k - 1) : text[m] # "'"
        b == CHOOSE k \in (a + 1)..Len(text) :
                 text[k] = "'" /\ \A m \in (a + 1)..(k - 1) : text[m] # "'"
    IN  SubSeq(text, a + 1, b - 1)

ScanResult(e, i, b, h, cx, q) ==
    [err |-> e, int |-> i, bool |-> b,
     call |-> Call(h, "Scan", cx, <<q>>, e, i, b)]

\* xsql.DB.Scan of one of the three catalog queries: the scanned value is
\* an oid, or a boolean
Scan(h, dbname, cx, q, boom) ==
    IF cancelled /\ cx = "ctx"
    THEN ScanResult(New(errCanceled), 0, FALSE, h, cx, q)
    ELSE IF boom THEN ScanResult(New(errBoom), 0, FALSE, h, cx, q)
    ELSE IF dbname \notin databases
    THEN ScanResult(New(errNoDatabaseConn), 0, FALSE, h, cx, q)
    ELSE IF q.String = RoleOIDText
    THEN IF HasRole(q.Parameters[1].str)
         THEN ScanResult(NoErr, OidOf(q.Parameters[1].str), FALSE, h, cx, q)
         ELSE ScanResult(New("sql: no rows in result set"), 0, FALSE, h, cx, q)
    ELSE IF q.String = DataBaseExitsText
    THEN ScanResult(NoErr, 0, q.Parameters[1].str \in databases, h, cx, q)
    ELSE ScanResult(NoErr, 0,
                    \E e \in acl :
                        /\ e.db = dbname
                        /\ e.nsp = NspLiteral(q.String)
                        /\ e.grantee = q.Parameters[1].int
                        /\ e.grantor = q.Parameters[2].int,
                    h, cx, q)

(***************************************************************************)
(* The external client and its verbs                                       *)
(***************************************************************************)
Bg == "context.Background"

Ctx == "ctx"

\* the ProviderConfig as Connect reads it: the default database, the optional
\* SSL mode and the optional reference to the credentials Secret
ProviderConfigs ==
    [DefaultDatabase : {DefaultDatabase},
     SSLMode : {Nil, Ptr("require")},
     ConnectionSecretRef : {Nil, Ptr("conn")}]

\* the credentials Secret the reference names
Secret == [Data |-> "credentials"]

\* clients.ToString: the empty string for a nil pointer
clients_ToString(p) == IF IsNil(p) THEN "" ELSE Deref(p)

\* connector.newDB (postgresql.New): a handle remembers what it was built
\* from
newDB(creds, database, sslmode) ==
    [creds |-> creds, database |-> database, sslmode |-> sslmode]

\* a call of the usage tracker or of the kube client by Connect
KubeCall(h, o, what, boom) ==
    Call(h, o, Ctx, <<what>>, IF boom THEN New(errBoom) ELSE NoErr, 0, FALSE)

\* what Connect leaves behind: the client (nil on failure), the error, the
\* tracker and kube calls in order, and the newDB calls in order
Connected(c, e, calls, built) ==
    [external |-> c, err |-> e, calls |-> calls, newDB |-> built]

\* mutant: the target handle is bound to the provider's default database
\* whatever the object declares
externalOnDefault(mg, pc, s) ==
    [db |-> newDB(s.Data, pc.DefaultDatabase,
                  clients_ToString(pc.SSLMode)),
     dbDatabase |-> newDB(s.Data, pc.DefaultDatabase,
                          clients_ToString(pc.SSLMode))]

\* the client Connect returns: the identity handle on the provider's default
\* database, the target handle on the declared database when set
external(mg, pc, s) ==
    LET crateDb == IF ~IsNil(mg.ForProvider.Database)
                   THEN Deref(mg.ForProvider.Database)
                   ELSE pc.DefaultDatabase
    IN  [db |-> newDB(s.Data, pc.DefaultDatabase,
                      clients_ToString(pc.SSLMode)),
         dbDatabase |-> newDB(s.Data, crateDb, clients_ToString(pc.SSLMode))]

ConnectBuilt(c, calls) ==
    Connected(Ptr(c), NoErr, calls, <<c.db, c.dbDatabase>>)

\* Connect after the Secret was fetched
ConnectSecret(mg, pc, s, k, calls) ==
    IF k.err # NoErr
    THEN Connected(Nil, Wrap(k.err, errGetSecret), Append(calls, k), <<>>)
    ELSE ConnectBuilt(external(mg, pc, s), Append(calls, k))

\* mutant: a ProviderConfig without a Secret reference is not rejected and
\* the Secret is fetched all the same
ConnectProviderConfigNoRefTest(mg, pc, s, k, calls, fails) ==
    IF k.err # NoErr
    THEN Connected(Nil, Wrap(k.err, errGetPC), Append(calls, k), <<>>)
    ELSE ConnectSecret(mg, pc, s,
                       KubeCall("kube", "Get", "Secret", 3 \in fails),
                       Append(calls, k))

\* Connect after the ProviderConfig was fetched
ConnectProviderConfig(mg, pc, s, k, calls, fails) ==
    IF k.err # NoErr
    THEN Connected(Nil, Wrap(k.err, errGetPC), Append(calls, k), <<>>)
    ELSE IF IsNil(pc.ConnectionSecretRef)
    THEN Connected(Nil, New(errNoSecretRef), Append(calls, k), <<>>)
    ELSE ConnectSecret(mg, pc, s,
                       KubeCall("kube", "Get", "Secret", 3 \in fails),
                       Append(calls, k))

\* Connect after the usage was tracked
ConnectTracked(mg, pc, s, k, fails) ==
    IF k.err # NoErr
    THEN Connected(Nil, Wrap(k.err, errTrackPCUsage), <<k>>, <<>>)
    ELSE ConnectProviderConfig(mg, pc, s,
                               KubeCall("kube", "Get", "ProviderConfig",
                                        2 \in fails),
                               <<k>>, fails)

\* connector.Connect; fails names the tracker and kube calls that return
\* errBoom (1 Track, 2 Get ProviderConfig, 3 Get Secret)
Connect(mg, pc, s, fails) ==
    IF ~IsDefaultPrivilege(mg) THEN Connected(Nil, New(errNot), <<>>, <<>>)
    ELSE ConnectTracked(mg, pc, s,
                        KubeCall("usage", "Track", "ProviderConfigUsage",
                                 1 \in fails),
                        fails)

\* external.GetRoleOID: on the identity handle, with a background context
GetRoleOIDReturn(r, roleName) ==
    IF r.err # NoErr
    THEN [oid |-> 0, call |-> r.call,
          err |-> Errorf("could not find oid for role", roleName, r.err)]
    ELSE [oid |-> r.int, call |-> r.call, err |-> NoErr]

GetRoleOID(c, roleName, boom) ==
    GetRoleOIDReturn(Scan("db", c.db.database, Bg,
                          Query(RoleOIDText, <<StrParam(roleName)>>), boom),
                     roleName)

\* mutant: the scanned boolean is dropped and the database taken to exist
DataBaseExitsReturnTrue(r, dbNAme) ==
    IF r.err # NoErr
    THEN [exists |-> FALSE, call |-> r.call,
          err |-> Errorf("could not find database", dbNAme, r.err)]
    ELSE [exists |-> TRUE, call |-> r.call, err |-> NoErr]

DataBaseExitsReturn(r, dbNAme) ==
    IF r.err # NoErr
    THEN [exists |-> FALSE, call |-> r.call,
          err |-> Errorf("could not find database", dbNAme, r.err)]
    ELSE [exists |-> r.bool, call |-> r.call, err |-> NoErr]

\* external.DataBaseExits: on the identity handle, with a background context
DataBaseExits(c, dbNAme, boom) ==
    DataBaseExitsReturn(Scan("db", c.db.database, Bg,
                             Query(DataBaseExitsText, <<StrParam(dbNAme)>>),
                             boom),
                        dbNAme)

ExternalObservation(e, u, l) ==
    [ResourceExists |-> e, ResourceUpToDate |-> u,
     ResourceLateInitialized |-> l]

Empty == ExternalObservation(FALSE, FALSE, FALSE)

\* what a verb call leaves behind: the returned value and error, whether it
\* panicked instead of returning, its handle calls in order, the object and
\* the default ACL after it
Ret(o, e, calls, mg, a) ==
    [o |-> o, err |-> e, panicked |-> FALSE, calls |-> calls, cr |-> mg,
     acl |-> a]

Panic(calls, mg, a) ==
    [o |-> Empty, err |-> NoErr, panicked |-> TRUE, calls |-> calls,
     cr |-> mg, acl |-> a]

\* mutant: the Available condition is set before the existence test
ObserveExistsMarksAbsent(exists, calls, mg) ==
    Ret(ExternalObservation(exists, exists, FALSE), NoErr, calls,
        [mg EXCEPT !.Conditions = SetConditions(mg.Conditions, Available)],
        acl)

\* mutant: a present grant is reported without ResourceUpToDate
ObserveExistsNotUpToDate(exists, calls, mg) ==
    IF ~exists
    THEN Ret(ExternalObservation(FALSE, FALSE, FALSE), NoErr, calls, mg, acl)
    ELSE Ret(ExternalObservation(TRUE, FALSE, FALSE), NoErr, calls,
             [mg EXCEPT !.Conditions = SetConditions(mg.Conditions, Available)],
             acl)

\* mutant: a present grant is up to date only for an object that declares
\* privileges
ObserveExistsLooksAtPrivileges(exists, calls, mg) ==
    IF ~exists
    THEN Ret(ExternalObservation(FALSE, FALSE, FALSE), NoErr, calls, mg, acl)
    ELSE Ret(ExternalObservation(TRUE,
                                 ToStringSlice(mg.ForProvider.Privileges)
                                     # <<>>,
                                 FALSE),
             NoErr, calls,
             [mg EXCEPT !.Conditions = SetConditions(mg.Conditions, Available)],
             acl)

\* Observe after the probe: absent, or present and Available
ObserveExists(exists, calls, mg) ==
    IF ~exists
    THEN Ret(ExternalObservation(FALSE, FALSE, FALSE), NoErr, calls, mg, acl)
    ELSE Ret(ExternalObservation(TRUE, TRUE, FALSE), NoErr, calls,
             [mg EXCEPT !.Conditions = SetConditions(mg.Conditions, Available)],
             acl)

\* Observe after both identities resolved: the grant-existence probe on the
\* target handle
ObserveProbe(r3, calls, mg) ==
    IF r3.err # NoErr
    THEN Ret(Empty, Wrap(r3.err, errSelectDefaultPerms),
             Append(calls, r3.call), mg, acl)
    ELSE ObserveExists(r3.bool, Append(calls, r3.call), mg)

\* mutant: the error of the owner lookup is not tested and the probe runs
ObserveOwnerGoesOn(c, r1, r2, mg, fail) ==
    ObserveProbe(Scan("dbDatabase", c.dbDatabase.database, Ctx,
                      selectQuery(r2.oid, r1.oid), fail = 3),
                 <<r1.call, r2.call>>, mg)

\* Observe after the role resolved: the owner lookup
ObserveOwner(c, r1, r2, mg, fail) ==
    IF r2.err # NoErr
    THEN Ret(Empty, Wrap(r2.err, errSelectRoleId), <<r1.call, r2.call>>, mg,
             acl)
    ELSE ObserveProbe(Scan("dbDatabase", c.dbDatabase.database, Ctx,
                           selectQuery(r2.oid, r1.oid), fail = 3),
                      <<r1.call, r2.call>>, mg)

ObserveRole(c, r1, mg, fail) ==
    IF r1.err # NoErr
    THEN Ret(Empty, Wrap(r1.err, errSelectRoleId), <<r1.call>>, mg, acl)
    ELSE IF IsNil(mg.ForProvider.Owner) THEN Panic(<<r1.call>>, mg, acl)
    ELSE ObserveOwner(c, r1,
                      GetRoleOID(c, Deref(mg.ForProvider.Owner), fail = 2),
                      mg, fail)

\* external.Observe; fail names the handle call that returns errBoom
Observe(c, mg, fail) ==
    IF ~IsDefaultPrivilege(mg) THEN Ret(Empty, New(errNot), <<>>, mg, acl)
    ELSE IF IsNil(mg.ForProvider.Role)
    THEN Ret(Empty, New(errNoRole), <<>>, mg, acl)
    ELSE ObserveRole(c, GetRoleOID(c, Deref(mg.ForProvider.Role), fail = 1),
                     mg, fail)

\* mutant: the closing return makes a new errUnknown error instead of
\* wrapping the nil one
CreateReturnErrUnknown(x, calls, mg) ==
    IF x.err # NoErr
    THEN Ret(Empty, Wrap(x.err, errCreateDefaultPerms), Append(calls, x.call),
             mg, x.acl)
    ELSE Ret(Empty, New(errUnknown), Append(calls, x.call), mg, x.acl)

\* mutant: the error of ExecTx is dropped
CreateReturnDropsError(x, calls, mg) ==
    Ret(Empty, NoErr, Append(calls, x.call), mg, x.acl)

\* Create after ExecTx returned
CreateReturn(x, calls, mg) ==
    IF x.err # NoErr
    THEN Ret(Empty, Wrap(x.err, errCreateDefaultPerms), Append(calls, x.call),
             mg, x.acl)
    ELSE Ret(Empty, Wrap(x.err, errUnknown), Append(calls, x.call), mg, x.acl)

\* mutant: every statement is executed in a transaction of its own
CreateExecEach(c, ql, mg, fail) ==
    Ret(Empty, NoErr,
        [i \in 1..Len(ql) |->
            ExecTx("dbDatabase", c.dbDatabase.database, Ctx, <<ql[i]>>,
                   FALSE).call],
        mg, acl)

\* Create hands the built sequence to the target handle
CreateExec(c, ql, mg, fail) ==
    CreateReturn(ExecTx("dbDatabase", c.dbDatabase.database, Ctx, ql,
                        fail = 1),
                 <<>>, mg)

CreateBuilt(c, b, mg, fail) ==
    IF b.err # NoErr
    THEN Ret(Empty, Wrap(b.err, errCreateDefaultPermsQuery), <<>>, mg, acl)
    ELSE CreateExec(c, b.ql, mg, fail)

\* mutant: the install sequence is built before the object is marked
\* Creating, and a validation failure returns without the mark
CreateValidatesFirst(c, mg, fail) ==
    IF ~IsDefaultPrivilege(mg) THEN Ret(Empty, New(errNot), <<>>, mg, acl)
    ELSE IF createQueries(mg.ForProvider).err # NoErr
    THEN CreateBuilt(c, createQueries(mg.ForProvider), mg, fail)
    ELSE CreateBuilt(c, createQueries(mg.ForProvider),
                     [mg EXCEPT !.Conditions =
                          SetConditions(mg.Conditions, Creating)],
                     fail)

\* external.Create
Create(c, mg, fail) ==
    IF ~IsDefaultPrivilege(mg) THEN Ret(Empty, New(errNot), <<>>, mg, acl)
    ELSE CreateBuilt(c, createQueries(mg.ForProvider),
                     [mg EXCEPT !.Conditions =
                          SetConditions(mg.Conditions, Creating)],
                     fail)

\* mutant: Update re-runs the install sequence
UpdateRunsCreate(c, mg, fail) == Create(c, mg, fail)

\* external.Update
Update(c, mg, fail) == Ret(Empty, NoErr, <<>>, mg, acl)

\* Delete after ExecTx returned
DeleteReturn(x, calls, mg) ==
    IF x.err # NoErr
    THEN Ret(Empty, Wrap(x.err, errRevokeDefaultPerms), Append(calls, x.call),
             mg, x.acl)
    ELSE Ret(Empty, NoErr, Append(calls, x.call), mg, x.acl)

\* Delete after the database was found: build and execute the revoke
DeleteBuilt(c, b, calls, mg, fail) ==
    IF b.panicked THEN Panic(calls, mg, acl)
    ELSE IF b.err # NoErr
    THEN Ret(Empty, Wrap(b.err, errRevokeDefaultPermsQuery), calls, mg, acl)
    ELSE DeleteReturn(ExecTx("dbDatabase", c.dbDatabase.database, Ctx, b.ql,
                             fail = 2),
                      calls, mg)

\* mutant: the scanned answer of the probe is not tested
DeleteProbedIgnoresExists(c, d, mg, fail) ==
    IF d.err # NoErr
    THEN Ret(Empty, Wrap(d.err, errRevokeDefaultPerms), <<d.call>>, mg, acl)
    ELSE DeleteBuilt(c, deleteQuery(mg.ForProvider), <<d.call>>, mg, fail)

\* Delete after the database-existence probe
DeleteProbed(c, d, mg, fail) ==
    IF d.err # NoErr
    THEN Ret(Empty, Wrap(d.err, errRevokeDefaultPerms), <<d.call>>, mg, acl)
    ELSE IF ~d.exists THEN Ret(Empty, NoErr, <<d.call>>, mg, acl)
    ELSE DeleteBuilt(c, deleteQuery(mg.ForProvider), <<d.call>>, mg, fail)

DeleteMarked(c, mg, fail) ==
    IF IsNil(mg.ForProvider.Database) THEN Panic(<<>>, mg, acl)
    ELSE DeleteProbed(c,
                      DataBaseExits(c, Deref(mg.ForProvider.Database),
                                    fail = 1),
                      mg, fail)

\* mutant: Delete marks the object Deleting and goes on without the kind
\* test
DeleteNoKindCheck(c, mg, fail) ==
    DeleteMarked(c,
                 [mg EXCEPT !.Conditions =
                      SetConditions(mg.Conditions, Deleting)],
                 fail)

\* external.Delete
Delete(c, mg, fail) ==
    IF ~IsDefaultPrivilege(mg) THEN Ret(Empty, New(errNot), <<>>, mg, acl)
    ELSE DeleteMarked(c,
                      [mg EXCEPT !.Conditions =
                           SetConditions(mg.Conditions, Deleting)],
                      fail)

(***************************************************************************)
(* Reference resolution: DefaultPrivilege.ResolveReferences                *)
(***************************************************************************)
\* reference.FromPtrValue: the empty string for a nil pointer
FromPtrValue(p) == IF IsNil(p) THEN <<>> ELSE Deref(p)

\* reference.ToPtrValue: a nil pointer for the empty string
ToPtrValue(v) == IF Len(v) = 0 THEN Nil ELSE Ptr(v)

ResolutionRequest(cur, ref, sel, to) ==
    [CurrentValue |-> FromPtrValue(cur), Reference |-> ref, Selector |-> sel,
     To |-> to]

ResolutionResponse(v, ref) == [ResolvedValue |-> v, ResolvedReference |-> ref]

\* the objects a reference or a selector of the declared object can name,
\* and their external names
Referents == {"db", "role", "owner"}

ExternalName == [db |-> "d", role |-> <<"r">>, owner |-> <<"o">>]

\* a referent is absent, is there without an external name, or has one
ReferentStates == {"absent", "unnamed", "named"}

\* one call of the resolver: its request and what it answered
Resolution(req, rsp, err) ==
    [op |-> "Resolve", req |-> req, rsp |-> rsp, err |-> err]

\* the referent of the request is looked up among the objects
ResolveNamed(req, objs, name) ==
    IF objs[name] = "absent"
    THEN Resolution(req, ResolutionResponse(<<>>, Nil), New(errBoom))
    ELSE Resolution(req,
                    ResolutionResponse(IF objs[name] = "unnamed" THEN <<>>
                                       ELSE ExternalName[name],
                                       Ptr(name)),
                    NoErr)

\* the resolver: a value already set, or neither reference nor selector, is
\* answered with the request's own value and reference; else the reference,
\* or without one the selector, is followed
Resolve(req, objs) ==
    IF \/ Len(req.CurrentValue) # 0
       \/ IsNil(req.Reference) /\ IsNil(req.Selector)
    THEN Resolution(req,
                    ResolutionResponse(req.CurrentValue, req.Reference),
                    NoErr)
    ELSE ResolveNamed(req, objs,
                      IF ~IsNil(req.Reference) THEN Deref(req.Reference)
                      ELSE Deref(req.Selector))

\* ResolveReferences returned: the object as it was left, the error, the
\* resolver calls in order
Resolved(mg, err, calls) == [cr |-> mg, err |-> err, calls |-> calls]

\* after the owner's resolution: merge and return
OwnerResolved(mg, r, calls) ==
    IF r.err # NoErr
    THEN Resolved(mg, Wrap(r.err, "spec.forProvider.owner"),
                  Append(calls, r))
    ELSE Resolved([mg EXCEPT
                     !.ForProvider.Owner = ToPtrValue(r.rsp.ResolvedValue),
                     !.ForProvider.OwnerRef = r.rsp.ResolvedReference],
                  NoErr, Append(calls, r))

ResolveOwner(mg, calls, objs) ==
    OwnerResolved(mg,
                  Resolve(ResolutionRequest(mg.ForProvider.Owner,
                                            mg.ForProvider.OwnerRef,
                                            mg.ForProvider.OwnerSelector,
                                            "Role"),
                          objs),
                  calls)

\* mutant: a failed resolution of the role is passed over
RoleResolvedGoesOn(mg, r, calls, objs) ==
    IF r.err # NoErr
    THEN ResolveOwner(mg, Append(calls, r), objs)
    ELSE ResolveOwner([mg EXCEPT
                         !.ForProvider.Role =
                             ToPtrValue(r.rsp.ResolvedValue),
                         !.ForProvider.RoleRef = r.rsp.ResolvedReference],
                      Append(calls, r), objs)

\* after the role's resolution: return the error, or merge and go on
RoleResolved(mg, r, calls, objs) ==
    IF r.err # NoErr
    THEN Resolved(mg, Wrap(r.err, "spec.forProvider.role"), Append(calls, r))
    ELSE ResolveOwner([mg EXCEPT
                         !.ForProvider.Role =
                             ToPtrValue(r.rsp.ResolvedValue),
                         !.ForProvider.RoleRef = r.rsp.ResolvedReference],
                      Append(calls, r), objs)

ResolveRole(mg, calls, objs) ==
    RoleResolved(mg,
                 Resolve(ResolutionRequest(mg.ForProvider.Role,
                                           mg.ForProvider.RoleRef,
                                           mg.ForProvider.RoleSelector,
                                           "Role"),
                         objs),
                 calls, objs)

\* after the database's resolution: return the error, or merge and go on
DatabaseResolved(mg, r, objs) ==
    IF r.err # NoErr
    THEN Resolved(mg, Wrap(r.err, "spec.forProvider.database"), <<r>>)
    ELSE ResolveRole([mg EXCEPT
                        !.ForProvider.Database =
                            ToPtrValue(r.rsp.ResolvedValue),
                        !.ForProvider.DatabaseRef =
                            r.rsp.ResolvedReference],
                     <<r>>, objs)

ResolveReferences(mg, objs) ==
    DatabaseResolved(mg,
                     Resolve(ResolutionRequest(mg.ForProvider.Database,
                                               mg.ForProvider.DatabaseRef,
                                               mg.ForProvider.DatabaseSelector,
                                               "Database"),
                             objs),
                     objs)

(***************************************************************************)
(* The state machine: one step per verb invocation by the managed          *)
(* reconciler, plus what changes between invocations                       *)
(***************************************************************************)
\* res: the last invocation: which verb (or Connect), on which object, the
\* default ACL it started from, what it returned, its calls in order, the
\* object and the default ACL it left; for Connect also the ProviderConfig
\* it was to fetch, the calls that were to fail and the handles it built
NoCall ==
    [verb |-> "none", arg |-> NotDefaultPrivilege, aclBefore |-> {},
     o |-> Empty, err |-> NoErr, panicked |-> FALSE, calls |-> <<>>,
     mg |-> NotDefaultPrivilege, aclAfter |-> {}, pc |-> Nil, fails |-> {},
     newDB |-> <<>>]

Outcome(verb, mg, r) ==
    [verb |-> verb, arg |-> mg, aclBefore |-> acl, o |-> r.o, err |-> r.err,
     panicked |-> r.panicked, calls |-> r.calls, mg |-> r.cr,
     aclAfter |-> r.acl, pc |-> Nil, fails |-> {}, newDB |-> <<>>]

ConnectOutcome(mg, pc, fails, r) ==
    [verb |-> "Connect", arg |-> mg, aclBefore |-> acl, o |-> Empty,
     err |-> r.err, panicked |-> FALSE, calls |-> r.calls, mg |-> mg,
     aclAfter |-> acl, pc |-> Ptr(pc), fails |-> fails, newDB |-> r.newDB]

\* the ProviderConfig the first client was connected with
InitProviderConfig ==
    [DefaultDatabase |-> DefaultDatabase, SSLMode |-> Nil,
     ConnectionSecretRef |-> Ptr("conn")]

\* a client connected for the object, an empty default ACL, every database
\* present, no call made
Connected0 ==
    /\ cr \in {NotDefaultPrivilege}
              \cup {DefaultPrivilege(gp) : gp \in DefaultPrivilegeParameters}
    /\ ext = external(cr, InitProviderConfig, Secret)
    /\ acl = {}
    /\ databases = {DefaultDatabase} \cup DatabaseNames
    /\ res = NoCall
    /\ ncalls = 0
    /\ created = FALSE
    /\ deleted = FALSE
    /\ pending = Nil

Init == Connected0 /\ cancelled = FALSE

\* the verbs are called with a context that was cancelled already
InitCancelled == Connected0 /\ cancelled = TRUE

\* a verb call returned r
Returned(verb, r) ==
    /\ cr' = r.cr
    /\ acl' = r.acl
    /\ res' = Outcome(verb, cr, r)
    /\ ncalls' = ncalls + 1
    /\ UNCHANGED <<ext, databases, cancelled>>

\* a verb call made in one step
Invoke(verb, r) == Returned(verb, r) /\ UNCHANGED pending

\* the managed reconciler connects before it calls a verb; a failed Connect
\* leaves no new client
ConnectReturned(pc, fails, r) ==
    /\ ext' = IF r.err = NoErr THEN Deref(r.external) ELSE ext
    /\ res' = ConnectOutcome(cr, pc, fails, r)
    /\ ncalls' = ncalls + 1
    /\ UNCHANGED <<cr, acl, databases, created, deleted, pending, cancelled>>

ConnectStep ==
    /\ ncalls < MaxCalls
    /\ \E pc \in ProviderConfigs, fails \in SUBSET {1, 2, 3} :
          ConnectReturned(pc, fails, Connect(cr, pc, Secret, fails))

ObserveStep ==
    /\ ncalls < MaxCalls
    /\ \E fail \in 0..3 : Invoke("Observe", Observe(ext, cr, fail))
    /\ UNCHANGED <<created, deleted>>

\* created: the transaction of this Create committed
CreateReturned(r) ==
    /\ Invoke("Create", r)
    /\ created' = (r.err = NoErr /\ ~r.panicked)
    /\ deleted' = FALSE

CreateStep ==
    /\ ncalls < MaxCalls
    /\ \E fail \in 0..1 : CreateReturned(Create(ext, cr, fail))

UpdateStep ==
    /\ ncalls < MaxCalls
    /\ Invoke("Update", Update(ext, cr, 0))
    /\ UNCHANGED <<created, deleted>>

\* deleted: the revoke of this Delete committed
Revoked(r) ==
    /\ created' = FALSE
    /\ deleted' = (r.err = NoErr /\ ~r.panicked /\ Len(r.calls) = 2)

DeleteStep ==
    /\ ncalls < MaxCalls
    /\ \E fail \in 0..2 :
          LET r == Delete(ext, cr, fail) IN Invoke("Delete", r) /\ Revoked(r)

\* the declared privileges are edited between reconciles
ChangePrivileges ==
    /\ IsDefaultPrivilege(cr)
    /\ \E p \in PrivilegeLists :
          /\ cr.ForProvider.Privileges # Ptr(p)
          /\ cr' = [cr EXCEPT !.ForProvider.Privileges = Ptr(p)]
    /\ created' = FALSE
    /\ deleted' = FALSE
    /\ UNCHANGED <<ext, acl, databases, res, ncalls, pending, cancelled>>

\* the declared schema is edited between reconciles
ChangeSchema ==
    /\ IsDefaultPrivilege(cr)
    /\ \E n \in SchemaNames :
          /\ cr.ForProvider.Schema # Ptr(n)
          /\ cr' = [cr EXCEPT !.ForProvider.Schema = Ptr(n)]
    /\ created' = FALSE
    /\ deleted' = FALSE
    /\ UNCHANGED <<ext, acl, databases, res, ncalls, pending, cancelled>>

\* the declared database is dropped out of band, with its default ACL
DropDatabase ==
    /\ \E d \in databases \ {DefaultDatabase} :
          /\ databases' = databases \ {d}
          /\ acl' = {e \in acl : e.db # d}
    /\ created' = FALSE
    /\ deleted' = FALSE
    /\ UNCHANGED <<cr, ext, res, ncalls, pending, cancelled>>

Next ==
    \/ ObserveStep
    \/ CreateStep
    \/ UpdateStep
    \/ DeleteStep
    \/ ChangePrivileges
    \/ ChangeSchema
    \/ DropDatabase

\* Delete as far as its existence probe: a call that goes on to ExecTx is
\* left pending with what it has computed, any other call returns
DeleteProbeReturned(r) ==
    \/ /\ Len(r.calls) = 2
       /\ pending' = Ptr(r)
       /\ UNCHANGED <<cr, ext, acl, databases, res, ncalls, created,
                      deleted, cancelled>>
    \/ /\ Len(r.calls) # 2
       /\ Returned("Delete", r)
       /\ Revoked(r)
       /\ UNCHANGED pending

DeleteProbeStep ==
    /\ ncalls < MaxCalls
    /\ pending = Nil
    /\ \E fail \in 0..1 : DeleteProbeReturned(Delete(ext, cr, fail))

\* the pending Delete hands its statements to ExecTx, on the server as it
\* is by then, and returns
DeleteExecReturned(r) ==
    /\ Returned("Delete", r)
    /\ Revoked(r)
    /\ pending' = Nil

DeleteExecStep ==
    /\ pending # Nil
    /\ \E boom \in BOOLEAN :
          DeleteExecReturned(
              DeleteReturn(ExecTx("dbDatabase", ext.dbDatabase.database, Ctx,
                                  Deref(pending).calls[2].ql, boom),
                           <<Deref(pending).calls[1]>>, Deref(pending).cr))

\* the verbs of one client, with what changes between their invocations
Spec == Init /\ [][Next]_vars

\* Delete in its two database calls, interleaved with an out-of-band drop of
\* the declared database; Observe and Create are called between Deletes
DeleteNext ==
    \/ pending = Nil /\ ObserveStep
    \/ pending = Nil /\ CreateStep
    \/ DeleteProbeStep
    \/ DeleteExecStep
    \/ DropDatabase

SpecDelete == Init /\ [][DeleteNext]_vars

\* the verbs under a context cancelled before they are called
SpecCancelled == InitCancelled /\ [][Next]_vars

\* Connect reads the object, the ProviderConfig and the Secret only: its
\* invocations are explored apart from the verbs
SpecConnect == Init /\ [][ConnectStep]_vars

\* a declared field of the object: unset, set, set with the reference it was
\* resolved from, to be resolved from a reference, or from a selector
ReferenceShapes(v, name) ==
    {[v |-> Nil, ref |-> Nil, sel |-> Nil],
     [v |-> Ptr(v), ref |-> Nil, sel |-> Nil],
     [v |-> Ptr(v), ref |-> Ptr(name), sel |-> Nil],
     [v |-> Nil, ref |-> Ptr(name), sel |-> Nil],
     [v |-> Nil, ref |-> Nil, sel |-> Ptr(name)]}

\* DefaultPrivilegeParameters with the references and selectors of the
\* database, the role and the owner
ReferencedParameters ==
    {[Privileges |-> Ptr(<<"ALL">>), Schema |-> Ptr(PublicSchema),
      Database |-> d.v, DatabaseRef |-> d.ref, DatabaseSelector |-> d.sel,
      Role |-> r.v, RoleRef |-> r.ref, RoleSelector |-> r.sel,
      Owner |-> o.v, OwnerRef |-> o.ref, OwnerSelector |-> o.sel] :
        d \in ReferenceShapes("d", "db"),
        r \in ReferenceShapes(<<"r">>, "role"),
        o \in ReferenceShapes(<<"o">>, "owner")}

ResolveOutcome(mg, r) ==
    [verb |-> "ResolveReferences", arg |-> mg, aclBefore |-> acl,
     o |-> Empty, err |-> r.err, panicked |-> FALSE, calls |-> r.calls,
     mg |-> r.cr, aclAfter |-> acl, pc |-> Nil, fails |-> {},
     newDB |-> <<>>]

\* an object with references, not resolved yet
InitResolve ==
    /\ cr \in {DefaultPrivilege(gp) : gp \in ReferencedParameters}
    /\ ext = external(cr, InitProviderConfig, Secret)
    /\ acl = {}
    /\ databases = {DefaultDatabase} \cup DatabaseNames
    /\ res = NoCall
    /\ ncalls = 0
    /\ created = FALSE
    /\ deleted = FALSE
    /\ pending = Nil
    /\ cancelled = FALSE

\* ResolveReferences works on the object in place: what it merged stays
\* whether it returns an error or not
ResolveReturned(r) ==
    /\ cr' = r.cr
    /\ res' = ResolveOutcome(cr, r)
    /\ ncalls' = ncalls + 1
    /\ UNCHANGED <<ext, acl, databases, created, deleted, pending, cancelled>>

\* the managed reconciler resolves the references at the start of every
\* reconcile, against the referents as they are then
ResolveStep ==
    /\ ncalls < MaxCalls
    /\ \E objs \in [Referents -> ReferentStates] :
          ResolveReturned(ResolveReferences(cr, objs))

\* the reference resolution of consecutive reconciles
SpecResolve == InitResolve /\ [][ResolveStep]_vars

(***************************************************************************)
(* Properties                                                              *)
(***************************************************************************)
Missing(gp) ==
    {f \in {"Role", "Owner", "Schema", "Privileges"} :
        \/ IsNil(gp[f])
        \/ f = "Privileges" /\ gp[f] = Ptr(<<>>)}

ErrorNamedFor ==
    [Role |-> errNoRole, Owner |-> errNoOwner, Schema |-> errNoSchema,
     Privileges |-> errNoPrivileges]

Declared(privs) == {Deref(privs)[i] : i \in 1..Len(Deref(privs))}

AllCallsOK == \A i \in 1..Len(res.calls) : res.calls[i].err = NoErr

ExecTxCalls == {i \in 1..Len(res.calls) : res.calls[i].op = "ExecTx"}

ScanCalls == {i \in 1..Len(res.calls) : res.calls[i].op = "Scan"}

\* the last verb was an Observe whose two identity lookups resolved and
\* whose grant-existence probe returned b
ObserveProbed(b) ==
    /\ res.verb = "Observe"
    /\ Len(res.calls) = 3
    /\ AllCallsOK
    /\ res.calls[3].bool = b

\* C1: when role and owner resolve and the grant-existence probe yields
\* false, Observe returns ResourceExists=false with a nil error and leaves
\* the status conditions as they were (Available is not set).
C1_ObserveAbsent ==
    ObserveProbed(FALSE) =>
        /\ ~res.panicked
        /\ res.err = NoErr
        /\ res.o.ResourceExists = FALSE
        /\ res.mg.Conditions = res.arg.Conditions
        /\ \A i \in 1..Len(res.mg.Conditions) :
              res.mg.Conditions[i] # Available

\* an absent observation of an object that already carries a condition
C1_Witness ==
    /\ ObserveProbed(FALSE)
    /\ res.arg.Conditions = <<Creating>>
    /\ res.aclBefore # {}

\* C2: when role and owner resolve and the grant-existence probe yields
\* true, Observe returns exactly exists=true, upToDate=true,
\* lateInitialized=false with a nil error and the condition is Available.
C2_ObservePresent ==
    ObserveProbed(TRUE) =>
        /\ ~res.panicked
        /\ res.err = NoErr
        /\ res.o = [ResourceExists |-> TRUE, ResourceUpToDate |-> TRUE,
                    ResourceLateInitialized |-> FALSE]
        /\ res.mg.Conditions = <<Available>>
        /\ res.mg.ForProvider = res.arg.ForProvider

C2_Witness ==
    /\ ObserveProbed(TRUE)
    /\ res.arg.Conditions = <<Creating>>
    /\ res.mg.Conditions = <<Available>>

\* the default ACL held, before the last call, an entry for the object's
\* (owner, role) in its declared schema of the target database, with
\* privileges other than the declared ones
GrantDrifted ==
    /\ IsDefaultPrivilege(res.arg)
    /\ Missing(res.arg.ForProvider) \subseteq {"Privileges"}
    /\ ~IsNil(res.arg.ForProvider.Privileges)
    /\ \E e \in res.aclBefore :
          /\ e.db = ext.dbDatabase.database
          /\ e.nsp = Deref(res.arg.ForProvider.Schema)
          /\ e.grantor = OidOf(Deref(res.arg.ForProvider.Owner))
          /\ e.grantee = OidOf(Deref(res.arg.ForProvider.Role))
          /\ e.privs # Declared(res.arg.ForProvider.Privileges)

\* C3: once a grant for (owner, role) exists and the declared privileges
\* have been changed to a different set, every later Observe (whose lookups
\* and probe succeed) still returns exists=true and upToDate=true, and no
\* Observe or Update call changes the privileges stored in the database.
C3_NoDriftDetection ==
    /\ res.verb \in {"Observe", "Update"} => res.aclAfter = res.aclBefore
    /\ (/\ res.verb = "Observe"
        /\ Len(res.calls) = 3
        /\ AllCallsOK
        /\ GrantDrifted)
       => /\ res.o.ResourceExists
          /\ res.o.ResourceUpToDate

\* C9: when the database-existence probe succeeds and reports that the
\* declared database does not exist, Delete returns nil and calls ExecTx on
\* neither handle.
C9_DeleteShortCircuit ==
    (/\ res.verb = "Delete"
     /\ Len(res.calls) >= 1
     /\ res.calls[1].op = "Scan"
     /\ res.calls[1].ql[1].String = DataBaseExitsText
     /\ res.calls[1].err = NoErr
     /\ res.calls[1].bool = FALSE)
    => /\ ~res.panicked
       /\ res.err = NoErr
       /\ ExecTxCalls = {}
       /\ Len(res.calls) = 1
       /\ res.aclAfter = res.aclBefore

\* a Delete of a complete object after its database was dropped
C9_Witness ==
    /\ res.verb = "Delete"
    /\ Len(res.calls) = 1
    /\ res.calls[1].err = NoErr
    /\ res.calls[1].bool = FALSE
    /\ res.err = NoErr
    /\ ~IsNil(res.arg.ForProvider.Role)
    /\ ~IsNil(res.arg.ForProvider.Owner)
    /\ ~IsNil(res.arg.ForProvider.Schema)
    /\ Deref(res.arg.ForProvider.Database) \notin databases

\* C10: Update, on every object and in every state, returns an empty
\* result and a nil error, makes no Scan or ExecTx call, and changes
\* neither the object's spec nor its conditions (nor the default ACL).
C10_UpdateNoOp ==
    res.verb = "Update" =>
        /\ ~res.panicked
        /\ res.err = NoErr
        /\ res.o = Empty
        /\ res.calls = <<>>
        /\ res.mg = res.arg
        /\ res.aclAfter = res.aclBefore

\* an Update of an object whose grant is installed and whose declared
\* privileges have since drifted from it
C10_Witness ==
    /\ res.verb = "Update"
    /\ IsDefaultPrivilege(res.arg)
    /\ \E e \in res.aclBefore :
          /\ ~IsNil(res.arg.ForProvider.Privileges)
          /\ e.privs # {Deref(res.arg.ForProvider.Privileges)[i] :
                          i \in 1..Len(Deref(res.arg.ForProvider.Privileges))}

\* C4: for an object with role, owner, schema and a non-empty privilege
\* list, the install sequence built by createQueries, which is the one
\* Create hands to ExecTx, has exactly three statements in this order: SET
\* ROLE owner; revoke ALL table default privileges from the role in the
\* schema for the owner; grant the declared privileges on tables to the
\* role in the schema for the owner.
C4_RevokePrecedesGrant ==
    (/\ res.verb = "Create"
     /\ IsDefaultPrivilege(res.arg)
     /\ Missing(res.arg.ForProvider) = {})
    => /\ createQueries(res.arg.ForProvider).err = NoErr
       /\ Len(res.calls) = 1
       /\ res.calls[1].ql = createQueries(res.arg.ForProvider).ql
       /\ Len(res.calls[1].ql) = 3
       /\ ParseStmt(res.calls[1].ql[1].String) =
            [BadStmt EXCEPT !.op = "SetRole",
                            !.owner = Deref(res.arg.ForProvider.Owner)]
       /\ ParseStmt(res.calls[1].ql[2].String) =
            [BadStmt EXCEPT !.op = "Revoke",
                            !.owner = Deref(res.arg.ForProvider.Owner),
                            !.schema = Deref(res.arg.ForProvider.Schema),
                            !.role = Deref(res.arg.ForProvider.Role)]
       /\ ParseStmt(res.calls[1].ql[3].String) =
            [BadStmt EXCEPT !.op = "Grant",
                            !.owner = Deref(res.arg.ForProvider.Owner),
                            !.schema = Deref(res.arg.ForProvider.Schema),
                            !.role = Deref(res.arg.ForProvider.Role),
                            !.privs = Declared(res.arg.ForProvider.Privileges)]

\* a Create of an object whose role name needs escaping and which declares
\* two privileges
C4_Witness ==
    /\ res.verb = "Create"
    /\ IsDefaultPrivilege(res.arg)
    /\ Missing(res.arg.ForProvider) = {}
    /\ Deref(res.arg.ForProvider.Role) = <<"r", DQ>>
    /\ Len(Deref(res.arg.ForProvider.Privileges)) = 2
    /\ Len(res.calls) = 1
    /\ Len(res.calls[1].ql) = 3

\* the statement sequence the last Create or Delete had to execute
Built ==
    IF res.verb = "Create" THEN createQueries(res.arg.ForProvider)
    ELSE deleteQuery(res.arg.ForProvider)

\* the last Create or Delete got as far as executing its sequence
ReachedExec ==
    /\ IsDefaultPrivilege(res.arg)
    /\ ~Built.panicked
    /\ Built.err = NoErr
    /\ res.verb = "Delete" =>
          /\ Len(res.calls) >= 1
          /\ res.calls[1].op = "Scan"
          /\ res.calls[1].err = NoErr
          /\ res.calls[1].bool

\* C5: one Create call, and one Delete call, hands the whole statement
\* sequence to the target handle in exactly one ExecTx call, in build
\* order; no statement is executed on its own, the sequence is not split
\* and not retried.
C5_SingleTransaction ==
    res.verb \in {"Create", "Delete"} =>
        /\ Cardinality(ExecTxCalls) <= 1
        /\ ReachedExec => Cardinality(ExecTxCalls) = 1
        /\ \A i \in ExecTxCalls :
              /\ i = Len(res.calls)
              /\ res.calls[i].handle = "dbDatabase"
              /\ res.calls[i].ql = Built.ql
        /\ \A i \in ScanCalls :
              /\ res.verb = "Delete"
              /\ i = 1
              /\ res.calls[i].ql[1].String = DataBaseExitsText

\* a Create whose transaction failed: it was not tried again
C5_Witness ==
    /\ res.verb = "Create"
    /\ Cardinality(ExecTxCalls) = 1
    /\ Len(res.calls[1].ql) = 3
    /\ res.calls[1].err # NoErr
    /\ res.err # NoErr

\* C5, Delete side: a Delete that executed its two statements in one call
C5_WitnessDelete ==
    /\ res.verb = "Delete"
    /\ Cardinality(ExecTxCalls) = 1
    /\ Len(res.calls) = 2
    /\ Len(res.calls[2].ql) = 2

Executed(r) ==
    /\ r.verb = "Create"
    /\ Len(r.calls) = 1
    /\ r.calls[1].op = "ExecTx"
    /\ r.calls[1].err = NoErr

\* C6: two Create calls in a row on the same unchanged object, the
\* executor succeeding both times, pass the same statement sequence to
\* ExecTx, the second returns no error, and the default ACL after the
\* second is the one after the first.
C6_CreateIdempotent ==
    [][(/\ ncalls' = ncalls + 1
        /\ Executed(res)
        /\ Executed(res')
        /\ res'.arg.ForProvider = res.arg.ForProvider
        /\ res'.aclBefore = res.aclAfter)
       => /\ res'.calls[1].ql = res.calls[1].ql
          /\ ~res'.panicked
          /\ res'.err = NoErr
          /\ res'.aclAfter = res.aclAfter
          /\ acl' = acl]_vars

\* a Create that succeeded on an object already marked Creating, whose
\* grant was already installed with the declared privileges
C6_Witness ==
    /\ Executed(res)
    /\ res.err = NoErr
    /\ res.arg.Conditions = <<Creating>>
    /\ res.aclAfter = res.aclBefore
    /\ \E e \in res.aclBefore :
          e.privs = Declared(res.arg.ForProvider.Privileges)

\* C7: a DefaultPrivilege that omits exactly one of role, owner, schema,
\* privileges (nil or empty list) makes Create fail with the validation
\* error named for that field, with no statement built and no ExecTx call.
C7_CreateValidation ==
    \A f \in {"Role", "Owner", "Schema", "Privileges"} :
        (/\ res.verb = "Create"
         /\ IsDefaultPrivilege(res.arg)
         /\ Missing(res.arg.ForProvider) = {f})
        => /\ ~res.panicked
           /\ res.err = <<Msg(errCreateDefaultPermsQuery, <<>>),
                          Msg(ErrorNamedFor[f], <<>>)>>
           /\ createQueries(res.arg.ForProvider).ql = <<>>
           /\ res.calls = <<>>
           /\ res.aclAfter = res.aclBefore

\* a Create refused for an empty, non-nil privilege list
C7_Witness ==
    /\ res.verb = "Create"
    /\ IsDefaultPrivilege(res.arg)
    /\ Missing(res.arg.ForProvider) = {"Privileges"}
    /\ res.arg.ForProvider.Privileges = Ptr(<<>>)
    /\ Cause(res.err) = errNoPrivileges

\* C7: a Create refused for a missing owner
C7_WitnessOwner ==
    /\ res.verb = "Create"
    /\ Missing(res.arg.ForProvider) = {"Owner"}
    /\ IsDefaultPrivilege(res.arg)
    /\ Cause(res.err) = errNoOwner

\* C8: when the declared database exists, a DefaultPrivilege that omits
\* exactly one of role, schema, owner makes Delete return the validation
\* error named for that field, with no statement built and no ExecTx call;
\* a missing privilege list alone does not make Delete fail.
C8_DeleteValidation ==
    (/\ res.verb = "Delete"
     /\ IsDefaultPrivilege(res.arg)
     /\ Len(res.calls) >= 1
     /\ res.calls[1].err = NoErr
     /\ res.calls[1].bool)
    => /\ \A f \in {"Role", "Schema", "Owner"} :
             Missing(res.arg.ForProvider) \ {"Privileges"} = {f} =>
                /\ ~res.panicked
                /\ res.err = <<Msg(errRevokeDefaultPermsQuery, <<>>),
                               Msg(ErrorNamedFor[f], <<>>)>>
                /\ ExecTxCalls = {}
       /\ Missing(res.arg.ForProvider) = {"Privileges"} =>
             /\ ~res.panicked
             /\ Len(res.calls) = 2
             /\ res.err # NoErr => res.calls[2].err # NoErr

Verbs == {"Observe", "Create", "Update", "Delete"}

\* the last call was a verb handed a managed resource of another kind
WrongKind == res.verb \in Verbs /\ res.arg.kind # "DefaultPrivilege"

\* C11 as stated: each of Observe, Create, Update and Delete, handed an
\* object that is not a DefaultPrivilege, fails with the wrong-kind error,
\* before any database call and before any status-condition change.
C11_WrongKindGuard ==
    WrongKind =>
        /\ ~res.panicked
        /\ res.err = New(errNot)
        /\ res.calls = <<>>
        /\ res.mg = res.arg

\* C11 amended: Observe, Create and Delete, handed an object that is not a
\* DefaultPrivilege, fail with the wrong-kind error before any database call
\* and any status-condition change; Update makes no kind test and returns a
\* nil error, also without a database call or a condition change.
C11_WrongKindGuardAmended ==
    WrongKind =>
        /\ ~res.panicked
        /\ res.calls = <<>>
        /\ res.mg = res.arg
        /\ res.aclAfter = res.aclBefore
        /\ res.verb # "Update" => res.err = New(errNot)
        /\ res.verb = "Update" => res.err = NoErr /\ res.o = Empty

\* a Delete refused for the kind of its argument
C11_Witness ==
    /\ WrongKind
    /\ res.verb = "Delete"
    /\ res.err = New(errNot)
    /\ res.mg.Conditions = <<>>

\* C11: an Update that accepted an object of another kind
C11_WitnessUpdate ==
    /\ WrongKind
    /\ res.verb = "Update"
    /\ res.err = NoErr

\* the default ACL held, before the last call, an entry with grantor the
\* declared owner and grantee the declared role in the namespace of the
\* declared schema, in the database of the target handle
GrantInDeclaredSchema ==
    \E e \in res.aclBefore :
        /\ e.db = ext.dbDatabase.database
        /\ e.nsp = Deref(res.arg.ForProvider.Schema)
        /\ e.grantor = OidOf(Deref(res.arg.ForProvider.Owner))
        /\ e.grantee = OidOf(Deref(res.arg.ForProvider.Role))

\* C12: an Observe whose lookups and probe succeed returns exists=true
\* exactly when the default ACL holds an entry with grantor the declared
\* owner and grantee the declared role in the namespace of the object's
\* declared schema.
C12_ExistenceScopedToSchema ==
    (/\ res.verb = "Observe"
     /\ Len(res.calls) = 3
     /\ AllCallsOK
     /\ ~IsNil(res.arg.ForProvider.Schema))
    => (res.o.ResourceExists <=> GrantInDeclaredSchema)

\* C12 holds of the objects that declare the schema public
C12_PublicOnly ==
    (/\ res.verb = "Observe"
     /\ Len(res.calls) = 3
     /\ AllCallsOK
     /\ res.arg.ForProvider.Schema = Ptr(PublicSchema))
    => (res.o.ResourceExists <=> GrantInDeclaredSchema)

\* C13: after one Create whose transaction committed, with no change
\* outside the reconciler since, the next Observe whose lookups and probe
\* succeed returns exists=true, whatever the declared schema.
C13_LifecycleConvergence ==
    (/\ created
     /\ res.verb = "Observe"
     /\ Len(res.calls) = 3
     /\ AllCallsOK)
    => res.o.ResourceExists

\* C13 holds of the objects that declare the schema public
C13_PublicOnly ==
    (/\ created
     /\ res.verb = "Observe"
     /\ Len(res.calls) = 3
     /\ AllCallsOK
     /\ res.arg.ForProvider.Schema = Ptr(PublicSchema))
    => /\ res.o.ResourceExists
       /\ res.mg.Conditions = <<Available>>

\* the database the object declares, else the provider's default one
TargetDatabase(mg) ==
    IF IsNil(mg.ForProvider.Database) THEN DefaultDatabase
    ELSE Deref(mg.ForProvider.Database)

\* C14: a Connect that succeeds builds exactly two handles, both from the
\* same credentials and SSL mode: the identity handle bound to the
\* provider's default database, and the target handle bound to the object's
\* declared database when one is set, else to the default database.
C14_HandleSelection ==
    (res.verb = "Connect" /\ res.err = NoErr) =>
        /\ Len(res.newDB) = 2
        /\ ext = [db |-> res.newDB[1], dbDatabase |-> res.newDB[2]]
        /\ ext.db.creds = Secret.Data
        /\ ext.dbDatabase.creds = ext.db.creds
        /\ ext.dbDatabase.sslmode = ext.db.sslmode
        /\ ext.db.database = DefaultDatabase
        /\ ext.dbDatabase.database = TargetDatabase(res.arg)

\* a Connect for an object that declares a database, with an SSL mode set
C14_Witness ==
    /\ res.verb = "Connect"
    /\ res.err = NoErr
    /\ res.arg.ForProvider.Database = Ptr("d")
    /\ ext.dbDatabase.database = "d"
    /\ ext.db.database = DefaultDatabase
    /\ ext.db.sslmode = "require"

\* C14: a Connect for an object that declares no database
C14_WitnessDefault ==
    /\ res.verb = "Connect"
    /\ res.err = NoErr
    /\ IsNil(res.arg.ForProvider.Database)
    /\ ext.dbDatabase = ext.db

\* the stages of Connect that fail on the input of the last Connect:
\* 1 the kind test, 2 the usage tracking, 3 the fetch of the ProviderConfig,
\* 4 the test of its Secret reference, 5 the fetch of the Secret
ConnectFailing ==
    (IF res.arg.kind # "DefaultPrivilege" THEN {1} ELSE {})
    \cup (IF 1 \in res.fails THEN {2} ELSE {})
    \cup (IF 2 \in res.fails THEN {3} ELSE {})
    \cup (IF IsNil(Deref(res.pc).ConnectionSecretRef) THEN {4} ELSE {})
    \cup (IF 3 \in res.fails THEN {5} ELSE {})

FirstFailing == CHOOSE n \in ConnectFailing : \A k \in ConnectFailing : n <= k

\* per stage: the error Connect returns when it fails there
ConnectError ==
    <<New(errNot),
      <<Msg(errTrackPCUsage, <<>>), Msg(errBoom, <<>>)>>,
      <<Msg(errGetPC, <<>>), Msg(errBoom, <<>>)>>,
      New(errNoSecretRef),
      <<Msg(errGetSecret, <<>>), Msg(errBoom, <<>>)>>>>

\* the tracker and kube calls of a Connect that runs to its end, by handle,
\* operation and object
ConnectCalls ==
    <<<<"usage", "Track", "ProviderConfigUsage">>,
      <<"kube", "Get", "ProviderConfig">>,
      <<"kube", "Get", "Secret">>>>

\* per stage: the calls made when Connect fails there, the failing one
\* included
CallsUpTo == <<0, 1, 2, 2, 3>>

\* C15: Connect fails at the first failing stage, in the order kind test,
\* usage tracking (wrapped 'cannot track ProviderConfig usage'), fetch of
\* the ProviderConfig (wrapped 'cannot get ProviderConfig'), missing Secret
\* reference (its own error), fetch of the Secret (wrapped 'cannot get
\* credentials Secret'); no later stage runs and no handle is built.
C15_ConnectFailFast ==
    (res.verb = "Connect" /\ ConnectFailing # {}) =>
        /\ res.err = ConnectError[FirstFailing]
        /\ Len(res.calls) = CallsUpTo[FirstFailing]
        /\ \A i \in 1..Len(res.calls) :
              /\ <<res.calls[i].handle, res.calls[i].op,
                   res.calls[i].ql[1]>> = ConnectCalls[i]
              /\ i < Len(res.calls) => res.calls[i].err = NoErr
        /\ res.newDB = <<>>

\* a Connect whose ProviderConfig names no Secret and whose Secret fetch
\* would fail too: the missing reference is reported, the Secret not fetched
C15_Witness ==
    /\ res.verb = "Connect"
    /\ ConnectFailing = {4, 5}
    /\ res.err = New(errNoSecretRef)
    /\ Len(res.calls) = 2

\* C15: a Connect whose three calls would all fail stops at the first
C15_WitnessTrack ==
    /\ res.verb = "Connect"
    /\ ConnectFailing = {2, 3, 5}
    /\ Cause(res.err) = errBoom
    /\ Len(res.calls) = 1

\* C16: for a DefaultPrivilege that passes validation, Create makes one
\* ExecTx call and returns an empty result with a nil error exactly when
\* that call succeeds; when it fails, Create returns its error wrapped with
\* 'cannot create default permissions' and the default ACL is the one from
\* before the call.
C16_CreateOutcome ==
    (/\ res.verb = "Create"
     /\ IsDefaultPrivilege(res.arg)
     /\ createQueries(res.arg.ForProvider).err = NoErr)
    => /\ ~res.panicked
       /\ res.o = Empty
       /\ Len(res.calls) = 1
       /\ res.calls[1].op = "ExecTx"
       /\ res.err = NoErr <=> res.calls[1].err = NoErr
       /\ res.calls[1].err # NoErr =>
             /\ res.err = <<Msg(errCreateDefaultPerms, <<>>)>>
                          \o res.calls[1].err
             /\ res.aclAfter = res.aclBefore

\* a Create whose transaction failed over a grant installed before, with
\* other privileges than the ones now declared
C16_Witness ==
    /\ res.verb = "Create"
    /\ createQueries(res.arg.ForProvider).err = NoErr
    /\ res.err = <<Msg(errCreateDefaultPerms, <<>>), Msg(errBoom, <<>>)>>
    /\ res.aclAfter = res.aclBefore
    /\ \E e \in res.aclBefore :
          e.privs # Declared(res.arg.ForProvider.Privileges)

\* C16: a Create whose transaction committed and changed the default ACL
C16_WitnessCommitted ==
    /\ res.verb = "Create"
    /\ res.err = NoErr
    /\ res.o = Empty
    /\ res.aclAfter # res.aclBefore

\* C17: Observe of a DefaultPrivilege that misses any of role, owner,
\* schema, privileges returns the validation error of a missing field, and
\* reports the grant neither absent nor present.
C17_ObserveValidation ==
    (/\ res.verb = "Observe"
     /\ IsDefaultPrivilege(res.arg)
     /\ Missing(res.arg.ForProvider) # {})
    => /\ ~res.panicked
       /\ res.err # NoErr
       /\ Cause(res.err) \in
             {ErrorNamedFor[f] : f \in Missing(res.arg.ForProvider)}
       /\ res.o = Empty
       /\ res.mg.Conditions = res.arg.Conditions

\* C17 holds of the role: Observe refuses an object without a role before
\* any handle call
C17_RoleOnly ==
    (/\ res.verb = "Observe"
     /\ IsDefaultPrivilege(res.arg)
     /\ IsNil(res.arg.ForProvider.Role))
    => /\ ~res.panicked
       /\ res.err = New(errNoRole)
       /\ res.o = Empty
       /\ res.calls = <<>>

\* Observe of an object without an owner panics after the role lookup
C17_OwnerPanics ==
    /\ res.verb = "Observe"
    /\ Missing(res.arg.ForProvider) = {"Owner"}
    /\ res.panicked
    /\ Len(res.calls) = 1

\* Observe of an object without a schema runs its three scans and reports
\* the grant absent
C17_SchemaIgnored ==
    /\ res.verb = "Observe"
    /\ Missing(res.arg.ForProvider) = {"Schema"}
    /\ Len(res.calls) = 3
    /\ res.err = NoErr
    /\ ~res.o.ResourceExists

\* Observe of an object whose privilege list was emptied reports the grant
\* present
C17_PrivilegesIgnored ==
    /\ res.verb = "Observe"
    /\ Missing(res.arg.ForProvider) = {"Privileges"}
    /\ res.err = NoErr
    /\ res.o.ResourceExists

\* the fields the last verb requires that its argument misses: Delete
\* requires no privilege list
RequiredMissing ==
    IF res.verb = "Delete" THEN Missing(res.arg.ForProvider) \ {"Privileges"}
    ELSE Missing(res.arg.ForProvider)

\* C18: Observe, Create and Delete of a DefaultPrivilege that misses a
\* required field return the validation error of a missing field without
\* any Scan or ExecTx call on either handle; Delete with a missing role or
\* schema makes no database-existence probe first and never returns success.
C18_ValidationFailsFast ==
    (/\ res.verb \in {"Observe", "Create", "Delete"}
     /\ IsDefaultPrivilege(res.arg)
     /\ RequiredMissing # {})
    => /\ ~res.panicked
       /\ res.err # NoErr
       /\ Cause(res.err) \in {ErrorNamedFor[f] : f \in RequiredMissing}
       /\ res.calls = <<>>

\* C18 holds of Create
C18_CreateOnly ==
    (/\ res.verb = "Create"
     /\ IsDefaultPrivilege(res.arg)
     /\ RequiredMissing # {})
    => /\ ~res.panicked
       /\ res.err # NoErr
       /\ Cause(res.err) \in {ErrorNamedFor[f] : f \in RequiredMissing}
       /\ res.calls = <<>>

\* a Delete of an object without a role probes for the database before it
\* returns the validation error
C18_DeleteProbesFirst ==
    /\ res.verb = "Delete"
    /\ RequiredMissing = {"Role"}
    /\ Cause(res.err) = errNoRole
    /\ Len(res.calls) = 1
    /\ res.calls[1].op = "Scan"
    /\ res.calls[1].ql[1].String = DataBaseExitsText

\* a Delete of an object without a schema returns success when the declared
\* database is gone
C18_DeleteSucceeds ==
    /\ res.verb = "Delete"
    /\ RequiredMissing = {"Schema"}
    /\ ~res.panicked
    /\ res.err = NoErr

\* C19: when the declared database exists and role, schema and owner are
\* set, Delete hands ExecTx on the target handle exactly two statements, SET
\* ROLE owner and then the revoke of ALL table default privileges from the
\* role in the schema for the owner, and no grant; it returns nil when
\* ExecTx succeeds and its error wrapped with 'cannot revoke default
\* permissions' when it fails.
C19_DeleteRevokeSequence ==
    (/\ res.verb = "Delete"
     /\ IsDefaultPrivilege(res.arg)
     /\ RequiredMissing = {}
     /\ Len(res.calls) >= 1
     /\ res.calls[1].err = NoErr
     /\ res.calls[1].bool)
    => /\ ~res.panicked
       /\ Len(res.calls) = 2
       /\ res.calls[2].op = "ExecTx"
       /\ res.calls[2].handle = "dbDatabase"
       /\ Len(res.calls[2].ql) = 2
       /\ ParseStmt(res.calls[2].ql[1].String) =
            [BadStmt EXCEPT !.op = "SetRole",
                            !.owner = Deref(res.arg.ForProvider.Owner)]
       /\ ParseStmt(res.calls[2].ql[2].String) =
            [BadStmt EXCEPT !.op = "Revoke",
                            !.owner = Deref(res.arg.ForProvider.Owner),
                            !.schema = Deref(res.arg.ForProvider.Schema),
                            !.role = Deref(res.arg.ForProvider.Role)]
       /\ res.calls[2].err = NoErr => res.err = NoErr
       /\ res.calls[2].err # NoErr =>
             res.err = <<Msg(errRevokeDefaultPerms, <<>>)>>
                       \o res.calls[2].err

\* a Delete whose revoke failed in the executor, for a role whose name needs
\* escaping
C19_Witness ==
    /\ res.verb = "Delete"
    /\ RequiredMissing = {}
    /\ Len(res.calls) = 2
    /\ res.calls[1].bool
    /\ Deref(res.arg.ForProvider.Role) = <<"r", DQ>>
    /\ res.err = <<Msg(errRevokeDefaultPerms, <<>>), Msg(errBoom, <<>>)>>

\* C19: a Delete whose revoke committed and removed an installed grant
C19_WitnessRevoked ==
    /\ res.verb = "Delete"
    /\ RequiredMissing = {}
    /\ Len(res.calls) = 2
    /\ res.err = NoErr
    /\ res.aclBefore # {}
    /\ res.aclAfter = {}

\* the error GetRoleOID returns for a role whose lookup failed with e, as
\* Observe wraps it
LookupError(roleName, e) ==
    <<Msg(errSelectRoleId, <<>>),
      Msg("could not find oid for role", roleName)>> \o e

\* C20: Observe stops at its first failing step, in the order role lookup,
\* owner lookup, grant-existence probe: a failed lookup returns an error
\* wrapped with 'cannot select role id' that names the role looked up, a
\* failed probe an error wrapped with 'cannot select default permissions';
\* no later step is issued, the observation is empty and the conditions are
\* left as they were.
C20_ObserveFailFast ==
    (/\ res.verb = "Observe"
     /\ IsDefaultPrivilege(res.arg)
     /\ ~AllCallsOK)
    => /\ ~res.panicked
       /\ Len(res.calls) \in 1..3
       /\ \A i \in 1..Len(res.calls) :
             /\ res.calls[i].op = "Scan"
             /\ (res.calls[i].err # NoErr) <=> (i = Len(res.calls))
       /\ res.calls[1].ql[1] =
             Query(RoleOIDText, <<StrParam(Deref(res.arg.ForProvider.Role))>>)
       /\ Len(res.calls) = 1 =>
             res.err = LookupError(Deref(res.arg.ForProvider.Role),
                                   res.calls[1].err)
       /\ Len(res.calls) >= 2 =>
             res.calls[2].ql[1] =
                Query(RoleOIDText,
                      <<StrParam(Deref(res.arg.ForProvider.Owner))>>)
       /\ Len(res.calls) = 2 =>
             res.err = LookupError(Deref(res.arg.ForProvider.Owner),
                                   res.calls[2].err)
       /\ Len(res.calls) = 3 =>
             /\ res.calls[3].handle = "dbDatabase"
             /\ res.err = <<Msg(errSelectDefaultPerms, <<>>)>>
                          \o res.calls[3].err
       /\ res.o = Empty
       /\ res.mg = res.arg
       /\ res.aclAfter = res.aclBefore

\* an Observe whose owner lookup failed, on an object a previous Observe
\* had marked Available
C20_Witness ==
    /\ res.verb = "Observe"
    /\ Len(res.calls) = 2
    /\ res.calls[2].err # NoErr
    /\ res.err = LookupError(<<"o">>, New(errBoom))
    /\ res.arg.Conditions = <<Available>>

\* C20: an Observe whose probe failed after both lookups resolved
C20_WitnessProbe ==
    /\ res.verb = "Observe"
    /\ Len(res.calls) = 3
    /\ res.calls[3].err # NoErr
    /\ Cause(res.err) = errBoom

\* C20: an Observe whose role lookup failed for a role name with a quote
C20_WitnessRole ==
    /\ res.verb = "Observe"
    /\ Len(res.calls) = 1
    /\ res.err = LookupError(<<"r", DQ>>, New(errBoom))

\* C21 as stated: under any interleaving of a Delete with an out-of-band
\* drop of the declared database, a drop between the probe and ExecTx
\* included, Delete makes no ExecTx call at a moment when the database does
\* not exist.
C21_NoDDLOnDroppedDatabase ==
    res.verb = "Delete" =>
        \A i \in ExecTxCalls : res.calls[i].err # New(errNoDatabaseConn)

\* C21 amended: every Delete of an object that declares a database probes
\* for the database first, in that same call and on the identity handle, and
\* calls ExecTx only after that probe answered that the database exists;
\* when the probe answers that it does not, Delete returns nil without
\* ExecTx. A drop after the probe is not seen: ExecTx is then called on the
\* dropped database, changes nothing, and its error is returned wrapped
\* with 'cannot revoke default permissions'.
C21_DeleteProbesAnew ==
    (/\ res.verb = "Delete"
     /\ IsDefaultPrivilege(res.arg)
     /\ ~IsNil(res.arg.ForProvider.Database))
    => /\ Len(res.calls) >= 1
       /\ res.calls[1].op = "Scan"
       /\ res.calls[1].handle = "db"
       /\ res.calls[1].ql[1] =
             Query(DataBaseExitsText,
                   <<StrParam(Deref(res.arg.ForProvider.Database))>>)
       /\ \A i \in ExecTxCalls :
             /\ i = 2
             /\ res.calls[1].err = NoErr
             /\ res.calls[1].bool
             /\ res.calls[i].err = New(errNoDatabaseConn) =>
                   /\ res.err = <<Msg(errRevokeDefaultPerms, <<>>),
                                  Msg(errNoDatabaseConn, <<>>)>>
                   /\ res.aclAfter = res.aclBefore
       /\ (res.calls[1].err = NoErr /\ ~res.calls[1].bool) =>
             /\ ExecTxCalls = {}
             /\ res.err = NoErr

\* a Delete whose probe found the database and whose ExecTx ran after the
\* database was dropped
C21_Witness ==
    /\ res.verb = "Delete"
    /\ Len(res.calls) = 2
    /\ res.calls[1].bool
    /\ res.calls[2].err = New(errNoDatabaseConn)
    /\ Deref(res.arg.ForProvider.Database) \notin databases

\* C21: a Delete, after an Observe that had found the grant, of an object
\* whose database was dropped since: the probe of the Delete says so
C21_WitnessAfterObserve ==
    /\ res.verb = "Delete"
    /\ res.arg.Conditions = <<Available>>
    /\ Len(res.calls) = 1
    /\ res.calls[1].err = NoErr
    /\ ~res.calls[1].bool

\* the entries of a default ACL for the (owner, role) of the last call's
\* object in its declared schema, in the database of the target handle
DeclaredEntries(a) ==
    {e \in a :
        /\ e.db = ext.dbDatabase.database
        /\ e.nsp = Deref(res.arg.ForProvider.Schema)
        /\ e.grantor = OidOf(Deref(res.arg.ForProvider.Owner))
        /\ e.grantee = OidOf(Deref(res.arg.ForProvider.Role))}

\* C22: after a Delete that returns success while the declared database
\* exists, no default-ACL entry for (owner, role) in the declared schema
\* remains and the next Observe of the same object returns exists=false;
\* when the database does not exist, the revoke is skipped and Delete
\* returns success.
C22_DeleteRemovesGrant ==
    /\ (/\ res.verb = "Delete"
        /\ ~res.panicked
        /\ res.err = NoErr
        /\ Len(res.calls) = 2)
       => DeclaredEntries(res.aclAfter) = {}
    /\ (/\ deleted
        /\ res.verb = "Observe"
        /\ Len(res.calls) = 3
        /\ AllCallsOK)
       => ~res.o.ResourceExists
    /\ (/\ res.verb = "Delete"
        /\ Len(res.calls) >= 1
        /\ res.calls[1].err = NoErr
        /\ ~res.calls[1].bool)
       => res.err = NoErr /\ ExecTxCalls = {}

\* C22 holds of the default ACL: a Delete that returns success with the
\* database present leaves no entry in the declared schema, and one with the
\* database gone skips the revoke
C22_AclOnly ==
    /\ (/\ res.verb = "Delete"
        /\ ~res.panicked
        /\ res.err = NoErr
        /\ Len(res.calls) = 2)
       => DeclaredEntries(res.aclAfter) = {}
    /\ (/\ res.verb = "Delete"
        /\ Len(res.calls) >= 1
        /\ res.calls[1].err = NoErr
        /\ ~res.calls[1].bool)
       => res.err = NoErr /\ ExecTxCalls = {}

\* an Observe right after a committed revoke in schema s that finds the
\* entry of schema public
C22_ObservePresentAfterDelete ==
    /\ deleted
    /\ res.verb = "Observe"
    /\ res.arg.ForProvider.Schema = Ptr(<<"s">>)
    /\ res.o.ResourceExists
    /\ DeclaredEntries(res.aclBefore) = {}

\* C23: when the context handed to Observe or Delete is cancelled already,
\* every database call the verb makes fails with the cancellation error and
\* the verb returns that error annotated: no query runs to completion.
C23_CancelledContext ==
    (/\ cancelled
     /\ res.verb \in {"Observe", "Delete"}
     /\ res.calls # <<>>)
    => /\ \A i \in 1..Len(res.calls) :
             /\ res.calls[i].ctx = Ctx
             /\ res.calls[i].err = New(errCanceled)
       /\ ~res.panicked
       /\ res.err # NoErr
       /\ Cause(res.err) = errCanceled

\* C23 holds of the calls on the target handle: the grant probe and ExecTx
\* are given the caller's context and fail when it is cancelled
C23_TargetHandleOnly ==
    (cancelled /\ res.verb \in Verbs) =>
        \A i \in 1..Len(res.calls) :
            res.calls[i].handle = "dbDatabase" =>
                /\ res.calls[i].ctx = Ctx
                /\ res.calls[i].err = New(errCanceled)
                /\ Cause(res.err) = errCanceled
                /\ res.aclAfter = res.aclBefore

\* an Observe under a cancelled context whose two lookups ran to completion
C23_LookupsComplete ==
    /\ cancelled
    /\ res.verb = "Observe"
    /\ Len(res.calls) = 3
    /\ res.calls[1].ctx = Bg
    /\ res.calls[1].err = NoErr
    /\ res.calls[2].err = NoErr
    /\ res.calls[3].err = New(errCanceled)

\* a Delete under a cancelled context that returns success after its probe
\* ran to completion
C23_DeleteSucceeds ==
    /\ cancelled
    /\ res.verb = "Delete"
    /\ Len(res.calls) = 1
    /\ res.calls[1].ctx = Bg
    /\ res.err = NoErr

\* C24: for a DefaultPrivilege whose database is not set, Delete takes the
\* provider's default database as the target: it returns (nil or an error,
\* never a panic), probing the default database first and then running the
\* revoke sequence on the target handle.
C24_DeleteDefaultDatabase ==
    (/\ res.verb = "Delete"
     /\ IsDefaultPrivilege(res.arg)
     /\ IsNil(res.arg.ForProvider.Database))
    => /\ ~res.panicked
       /\ Len(res.calls) >= 1
       /\ res.calls[1].ql[1] =
             Query(DataBaseExitsText, <<StrParam(DefaultDatabase)>>)
       /\ (RequiredMissing = {} /\ res.calls[1].err = NoErr) =>
             /\ Len(res.calls) = 2
             /\ res.calls[2].op = "ExecTx"
             /\ res.calls[2].handle = "dbDatabase"

\* a Delete of a complete object without a database, on a client whose
\* target handle is bound to the default database: it panics before any
\* call
C24_DeletePanics ==
    /\ res.verb = "Delete"
    /\ RequiredMissing = {}
    /\ IsNil(res.arg.ForProvider.Database)
    /\ ext.dbDatabase.database = DefaultDatabase
    /\ res.panicked
    /\ res.calls = <<>>
    /\ res.mg.Conditions = <<Deleting>>

\* the words of the statement templates
StatementWords ==
    {"SET", "ROLE", "ALTER", "DEFAULT", "PRIVILEGES", "FOR", "IN", "SCHEMA",
     "REVOKE", "ALL", "ON", "TABLES", "FROM", "GRANT", "TO"}

\* the texts of the three catalog queries: none depends on a declared value
CatalogTexts == {RoleOIDText, DataBaseExitsText, selectQuery(0, 0).String}

\* a statement of an install or revoke sequence for these parameters: read
\* by the lexer, every quoted identifier is a declared role, owner or schema
\* name, and every other lexeme is a word of the templates, a comma or a
\* declared privilege
OnlyQuotedNames(L, gp) ==
    \A k \in 1..Len(L) :
        /\ L[k].k # "bad"
        /\ L[k].k = "id" =>
              L[k].v \in {Deref(gp.Role), Deref(gp.Owner), Deref(gp.Schema)}
        /\ L[k].k = "kw" =>
              L[k].v[1] \in StatementWords \cup {","}
                            \cup {ToStringSlice(gp.Privileges)[n] :
                                    n \in 1..Len(ToStringSlice(gp.Privileges))}

\* a catalog query: fixed text, the declared values and the identities as
\* positional parameters
OnlyParameters(q, gp) ==
    /\ q.String \in CatalogTexts
    /\ q.String = RoleOIDText =>
          \E n \in {gp.Role, gp.Owner} \ {Nil} :
              q.Parameters = <<StrParam(Deref(n))>>
    /\ q.String = DataBaseExitsText =>
          q.Parameters = <<StrParam(Deref(gp.Database))>>
    /\ q.String = selectQuery(0, 0).String =>
          q.Parameters = <<IntParam(OidOf(Deref(gp.Role))),
                           IntParam(OidOf(Deref(gp.Owner)))>>

\* C25: in every statement of the install and revoke sequences each
\* occurrence of the role, owner and schema name is its quoted form; the
\* catalog queries get declared values and identities as positional
\* parameters only; the one declared datum that enters statement text
\* unquoted is the comma-joined privilege list.
C25_OnlyQuotedIdentifiers ==
    res.verb \in Verbs =>
        \A i \in 1..Len(res.calls) :
            /\ res.calls[i].op = "ExecTx" =>
                  \A j \in 1..Len(res.calls[i].ql) :
                      /\ res.calls[i].ql[j].Parameters = <<>>
                      /\ OnlyQuotedNames(Lex(res.calls[i].ql[j].String),
                                         res.arg.ForProvider)
            /\ res.calls[i].op = "Scan" =>
                  /\ Len(res.calls[i].ql) = 1
                  /\ OnlyParameters(res.calls[i].ql[1], res.arg.ForProvider)

\* a Delete that revoked for a role whose name holds a double quote: the
\* statement text carries the quote doubled
C25_Witness ==
    /\ res.verb = "Delete"
    /\ Len(res.calls) = 2
    /\ Deref(res.arg.ForProvider.Role) = <<"r", DQ>>
    /\ res.calls[2].ql[2].String =
          DeleteRevokeText(<<DQ, "o", DQ>>, <<DQ, "s", DQ>>,
                           <<DQ, "r", DQ, DQ, DQ>>)

\* C25: a Create of two privileges for a role whose name holds a double
\* quote
C25_WitnessCreate ==
    /\ res.verb = "Create"
    /\ Len(res.calls) = 1
    /\ Deref(res.arg.ForProvider.Role) = <<"r", DQ>>
    /\ Len(Deref(res.arg.ForProvider.Privileges)) = 2
    /\ Len(res.calls[1].ql) = 3

\* C25: an Observe whose probe got the two identities as parameters
C25_WitnessObserve ==
    /\ res.verb = "Observe"
    /\ Len(res.calls) = 3
    /\ res.calls[3].ql[1].Parameters = <<IntParam(16385), IntParam(16386)>>

\* the fields ResolveReferences resolves, in the order of the claim, with
\* the reference, the selector, the kind of referent and the path of each
ResolvedFields == <<"Database", "Role", "Owner">>

RefField ==
    [Database |-> "DatabaseRef", Role |-> "RoleRef", Owner |-> "OwnerRef"]

SelectorField ==
    [Database |-> "DatabaseSelector", Role |-> "RoleSelector",
     Owner |-> "OwnerSelector"]

ReferentKind == [Database |-> "Database", Role |-> "Role", Owner |-> "Role"]

FieldPath ==
    [Database |-> "spec.forProvider.database",
     Role |-> "spec.forProvider.role", Owner |-> "spec.forProvider.owner"]

\* C26: ResolveReferences asks the resolver for the database, then the
\* role, then the owner, each with the field's value, reference and selector
\* as declared; after each success the field is the response's value and the
\* reference the response's reference; at the first failure it returns that
\* error wrapped with the field's path, makes no further call, leaves that
\* field and the later ones as they were and the earlier ones overwritten;
\* without a failure it returns nil; nothing else of the object changes.
C26_ResolveOrderAndMerge ==
    res.verb = "ResolveReferences" =>
        LET a == res.arg.ForProvider
            m == res.mg.ForProvider
            n == Len(res.calls)
        IN  /\ n \in 1..3
            /\ \A i \in 1..n :
                  LET f == ResolvedFields[i]
                      c == res.calls[i]
                  IN  /\ c.req = ResolutionRequest(a[f], a[RefField[f]],
                                                   a[SelectorField[f]],
                                                   ReferentKind[f])
                      /\ i < n => c.err = NoErr
                      /\ c.err = NoErr =>
                            /\ m[f] = ToPtrValue(c.rsp.ResolvedValue)
                            /\ m[RefField[f]] = c.rsp.ResolvedReference
                      /\ c.err # NoErr =>
                            /\ res.err = <<Msg(FieldPath[f], <<>>)>> \o c.err
                            /\ m[f] = a[f]
                            /\ m[RefField[f]] = a[RefField[f]]
            /\ \A i \in (n + 1)..3 :
                  /\ m[ResolvedFields[i]] = a[ResolvedFields[i]]
                  /\ m[RefField[ResolvedFields[i]]] =
                        a[RefField[ResolvedFields[i]]]
            /\ res.calls[n].err = NoErr => n = 3 /\ res.err = NoErr
            /\ \A g \in {"Privileges", "Schema", "DatabaseSelector",
                         "RoleSelector", "OwnerSelector"} : m[g] = a[g]
            /\ res.mg.Conditions = res.arg.Conditions
            /\ cr = res.mg

\* the role's referent was absent: the database, resolved from its
\* reference just before, stays overwritten, and the owner, which has a
\* reference too, was not resolved
C26_Witness ==
    /\ res.verb = "ResolveReferences"
    /\ Len(res.calls) = 2
    /\ res.err = <<Msg("spec.forProvider.role", <<>>), Msg(errBoom, <<>>)>>
    /\ IsNil(res.arg.ForProvider.Database)
    /\ res.mg.ForProvider.Database = Ptr("d")
    /\ cr.ForProvider.Database = Ptr("d")
    /\ IsNil(cr.ForProvider.Owner)
    /\ cr.ForProvider.OwnerRef = Ptr("owner")

\* C26: all three resolved in one call, the owner through a selector that
\* became a reference
C26_WitnessAll ==
    /\ res.verb = "ResolveReferences"
    /\ Len(res.calls) = 3
    /\ res.err = NoErr
    /\ IsNil(res.arg.ForProvider.Database)
    /\ IsNil(res.arg.ForProvider.Role)
    /\ IsNil(res.arg.ForProvider.OwnerRef)
    /\ cr.ForProvider.Database = Ptr("d")
    /\ cr.ForProvider.Role = Ptr(<<"r">>)
    /\ cr.ForProvider.Owner = Ptr(<<"o">>)
    /\ cr.ForProvider.OwnerRef = Ptr("owner")

\* C26: a referent without an external name resolves to a nil field
C26_WitnessUnnamed ==
    /\ res.verb = "ResolveReferences"
    /\ res.err = NoErr
    /\ res.arg.ForProvider.RoleRef = Ptr("role")
    /\ IsNil(cr.ForProvider.Role)
    /\ res.calls[2].rsp.ResolvedReference = Ptr("role")

\* the objects that declare the role and the owner of mg, with any schema,
\* privileges and database
ObserveVariants(mg) ==
    {[mg EXCEPT !.ForProvider.Schema = s, !.ForProvider.Privileges = p,
                !.ForProvider.Database = d] :
        s \in {Nil} \cup {Ptr(n) : n \in SchemaNames},
        p \in {Nil} \cup {Ptr(q) : q \in PrivilegeLists},
        d \in {Nil} \cup {Ptr(n) : n \in DatabaseNames}}

\* two Observe calls that returned the same, made the same handle calls and
\* left the same conditions
SameObservation(x, y) ==
    /\ x.o = y.o
    /\ x.err = y.err
    /\ x.panicked = y.panicked
    /\ x.calls = y.calls
    /\ x.cr.Conditions = y.cr.Conditions
    /\ x.acl = y.acl

\* on the client and the server state an Observe was just made with, Observe
\* does the same for every object with the same role and owner, whatever
\* handle call fails
ObserveIgnoresDeclaration ==
    res.verb = "Observe" =>
        \A v \in ObserveVariants(cr), fail \in 0..3 :
            SameObservation(Observe(ext, v, fail), Observe(ext, cr, fail))

\* a default-ACL entry of the target database for the declared owner and
\* role, in any schema
GrantForPair ==
    \E e \in res.aclBefore :
        /\ e.db = ext.dbDatabase.database
        /\ e.grantor = OidOf(Deref(res.arg.ForProvider.Owner))
        /\ e.grantee = OidOf(Deref(res.arg.ForProvider.Role))

\* the same, in the schema public
PublicGrantForPair ==
    \E e \in res.aclBefore :
        /\ e.db = ext.dbDatabase.database
        /\ e.nsp = PublicSchema
        /\ e.grantor = OidOf(Deref(res.arg.ForProvider.Owner))
        /\ e.grantee = OidOf(Deref(res.arg.ForProvider.Role))

C27_WitnessAbsent ==
    /\ res.verb = "Observe"
    /\ Len(res.calls) = 3
    /\ AllCallsOK
    /\ ~res.o.ResourceExists
    /\ GrantForPair

\* C28: a Create of a DefaultPrivilege leaves the object with the condition
\* Creating set on the conditions it came with, and a Delete with Deleting,
\* whatever the call then returns; Observe leaves Available set when it
\* reports that the grant exists and the conditions as they were otherwise;
\* Update, and every verb called with an object of another kind, leave the
\* conditions as they were.
C28_ConditionBeforeValidation ==
    /\ (res.verb = "Create" /\ IsDefaultPrivilege(res.arg)) =>
          res.mg.Conditions = SetConditions(res.arg.Conditions, Creating)
    /\ (res.verb = "Delete" /\ IsDefaultPrivilege(res.arg)) =>
          res.mg.Conditions = SetConditions(res.arg.Conditions, Deleting)
    /\ res.verb = "Observe" =>
          res.mg.Conditions =
              IF res.o.ResourceExists
              THEN SetConditions(res.arg.Conditions, Available)
              ELSE res.arg.Conditions
    /\ res.verb = "Update" => res.mg.Conditions = res.arg.Conditions
    /\ (res.verb \in Verbs /\ ~IsDefaultPrivilege(res.arg)) =>
          res.mg.Conditions = res.arg.Conditions
    /\ res.verb \in Verbs => cr.Conditions = res.mg.Conditions

\* a Create that failed validation, with no statement sent, turned the
\* Available of the object into Creating
C28_Witness ==
    /\ res.verb = "Create"
    /\ res.err # NoErr
    /\ res.calls = <<>>
    /\ res.arg.Conditions = <<Available>>
    /\ cr.Conditions = <<Creating>>

\* C28: a Delete whose probe failed left Deleting
C28_WitnessDeleteProbe ==
    /\ res.verb = "Delete"
    /\ Len(res.calls) = 1
    /\ res.calls[1].err # NoErr
    /\ res.arg.Conditions = <<Available>>
    /\ cr.Conditions = <<Deleting>>

\* C28: a Create whose transaction failed left Creating
C28_WitnessCreateExec ==
    /\ res.verb = "Create"
    /\ Len(res.calls) = 1
    /\ res.calls[1].err # NoErr
    /\ res.arg.Conditions = <<>>
    /\ cr.Conditions = <<Creating>>

\* C28: an Observe that found no grant left Creating as it was
C28_WitnessObserveAbsent ==
    /\ res.verb = "Observe"
    /\ Len(res.calls) = 3
    /\ AllCallsOK
    /\ ~res.o.ResourceExists
    /\ cr.Conditions = <<Creating>>

====
